---- MODULE Spec2Model ----
(***************************************************************************)
(* A model of the featureflag crate: the evaluator registry                *)
(* (featureflag/src/evaluator/global.rs) and the per-thread context stack  *)
(* (featureflag/src/context/stack.rs).                                     *)
(*                                                                         *)
(* Every thread has a call stack of the scoped calls that are active on    *)
(* it (with_default, Context::in_scope).  A scoped call runs user code (a  *)
(* hook or a body) that can observe and change the state, so it is split   *)
(* at the places where it hands control to that code.                      *)
(***************************************************************************)
EXTENDS Integers, Sequences, FiniteSets, TLC

\* Bound of the model: the most scoped calls (with_default, in_scope) that are
\* active at one time, counted over all threads.
MaxActive == 2

\* The largest number of pairs of a Fields value.
MaxFields == 3

Threads == {"t1", "t2"}
Evaluators == {"E1", "E2"}
\* The contexts: the root marker and the ids of the contexts that can be
\* constructed, in the order in which they are constructed.
CtxOrder == <<"C1", "C2">>
CtxIds == {CtxOrder[i] : i \in 1..Len(CtxOrder)}
Contexts == {"Root"} \cup CtxIds
Payloads == {"P1", "P2"}

\* Option::None, an empty slot, no panic in flight.
None == "None"
\* A thread for which the ThreadLocal of the context stack holds no value.
Absent == "Absent"

\* NoEvaluator (evaluator.rs, lines 135-149): abstains on every feature.
NoEv == "NoEvaluator"

VARIABLES
    global,        \* GLOBAL_EVALUATOR
    threadSlot,    \* THREAD_EVALUATOR, one per thread
    task,          \* TASK_EVALUATOR, one per thread
    thread_state,  \* GLOBAL_CONTEXT_STACK.thread_state, one per thread
    stack,         \* per thread, the frames of the active scoped calls
    panic,         \* per thread, the payload of the panic that is unwinding
    ret,           \* the call that returned in the last step and its result
    hooks,         \* the evaluator hooks invoked by the last step, in order
    globalOk,      \* history: the try_set_global_default calls that returned Ok (at most 2 kept)
    threadCalled,  \* history: per thread, whether try_set_thread_default was called on it
    ctx,           \* per context id, the Data of the context and its history
    evHeld,        \* the evaluators to which user code holds a strong handle (an Arc)
    futs,          \* per future id, the WrapContext or WrapEvaluator around it and how far it has run
    store          \* one Extensions value: whether its map exists, and the map's entries

regVars == <<global, threadSlot, task>>
scopeVars == <<thread_state>>
histVars == <<globalOk, threadCalled>>
ctxVars == <<ctx, evHeld>>
vars == <<global, threadSlot, task, thread_state, stack, panic, ret, hooks, globalOk, threadCalled,
          ctx, evHeld, futs, store>>

----
\* Helpers

NoRet == [thread |-> None, op |-> None, arg |-> None, res |-> None]

Returned(t, op, arg, res) == [thread |-> t, op |-> op, arg |-> arg, res |-> res]

Hook(t, name, e) == [thread |-> t, hook |-> name, ev |-> e]

Top(s) == s[Len(s)]

Pop(s) == SubSeq(s, 1, Len(s) - 1)

RECURSIVE ActiveOn(_)
ActiveOn(T) ==
    IF T = {} THEN 0
    ELSE LET t == CHOOSE x \in T : TRUE IN Len(stack[t]) + ActiveOn(T \ {t})

\* The number of scoped calls that are active, over all threads.
Active == ActiveOn(Threads)

Running(t) == panic[t] = None

\* OnceLock::get_or_init / OnceCell::get_or_init: the closure runs, and fills
\* the cell, only when the cell is empty; `ran` is what the closure leaves in
\* `initialized`.
GetOrInit_Overwrite(cell, e) == [cell |-> e, ran |-> TRUE]

GetOrInit(cell, e) ==
    IF cell = None THEN [cell |-> e, ran |-> TRUE]
                   ELSE [cell |-> cell, ran |-> FALSE]

\* get_default: the first of the task override, the thread slot, the global slot.
get_default_ThreadFirst(t) ==
    IF threadSlot[t] # None THEN threadSlot[t]
    ELSE IF task[t] # None THEN task[t]
    ELSE global

get_default(t) ==
    IF task[t] # None THEN task[t]
    ELSE IF threadSlot[t] # None THEN threadSlot[t]
    ELSE global

\* ContextStack::current
current_Shared(t) == IF thread_state["t1"] = Absent THEN None ELSE thread_state["t1"]

current(t) == IF thread_state[t] = Absent THEN None ELSE thread_state[t]

\* All frames of all active scoped calls.
Frames == UNION {{stack[t][i] : i \in 1..Len(stack[t])} : t \in Threads}

\* struct Data { evaluator: WeakEvaluatorRef, .. }: the strong evaluator
\* handles a context owns: none.
ContextHolds_Strong(c) ==
    IF ctx[c].state \in {"constructing", "live"} /\ ctx[c].ev # None THEN {ctx[c].ev} ELSE {}

ContextHolds(c) == {}

\* The evaluators that some EvaluatorRef / Arc keeps alive: those user code
\* holds, those in the registry slots, those owned by an active with_default
\* (its argument, its old_thread_evaluator) and those get_default has cloned for
\* a running new_with_parent, and those stored in a WrapEvaluator.
StrongHeld ==
    (evHeld
     \cup {global}
     \cup {threadSlot[t] : t \in Threads}
     \cup {task[t] : t \in Threads}
     \cup {fr.val : fr \in {f \in Frames : f.kind = "with_default"}}
     \cup {fr.saved : fr \in {f \in Frames : f.kind = "with_default"}}
     \cup {ctx[fr.val].ev : fr \in {f \in Frames : f.kind = "new_context"}}
     \cup {futs[f].evaluator : f \in DOMAIN futs}
     \cup UNION {ContextHolds(c) : c \in CtxIds}) \ {None}

\* WeakEvaluatorRef::upgrade
upgrade(w) == IF w # None /\ w \in StrongHeld THEN w ELSE None

\* The caller of a registry function on thread t can pass evaluator e: it holds
\* a handle to it or clones the one get_default gives it.
CanPass(t, e) == e \in evHeld \/ get_default(t) = e

\* A context id that has not been constructed.  state: "unborn",
\* "constructing", "live", "destroyed"; ev, parent, ext: the fields of Data (ext
\* holds the evaluators that have inserted an extension); held: user code holds
\* a clone of the context.  History: born (what get_default gave at
\* construction), arg (the parent argument), opened / closed (on_new_context /
\* on_close_context invocations, counted up to 2), completed (new_with_parent
\* has returned the context).
NoData ==
    [state |-> "unborn", ev |-> None, parent |-> None, ext |-> {}, held |-> FALSE,
     born |-> None, arg |-> None, opened |-> 0, closed |-> 0, completed |-> FALSE]

\* The futures and streams user code wraps; F2 is a stream.
Futures == {"F1", "F2"}

IsStream(f) == f = "F2"

\* A future that is not wrapped yet has no WrapContext.
NoFuture ==
    [state |-> "none", kind |-> None, context |-> None, evaluator |-> None, registered |-> FALSE,
     by |-> None, captured |-> None, regs |-> 0, last |-> None]

----
Init ==
    /\ global = None
    /\ threadSlot = [t \in Threads |-> None]
    /\ task = [t \in Threads |-> None]
    /\ thread_state = [t \in Threads |-> Absent]
    /\ stack = [t \in Threads |-> << >>]
    /\ panic = [t \in Threads |-> None]
    /\ ret = NoRet
    /\ hooks = << >>
    /\ globalOk = << >>
    /\ threadCalled = [t \in Threads |-> FALSE]
    /\ ctx = [c \in CtxIds |-> NoData]
    /\ evHeld = Evaluators
    /\ futs = [f \in Futures |-> NoFuture]
    /\ store = [some |-> FALSE, pairs |-> {}]

----
\* Evaluator registry

\* The hooks try_set_global_default and try_set_thread_default invoke on the
\* evaluator they install: none.
SetDefaultHooks(t, e) == << >>

TrySetGlobalDefault(t, e) ==
    /\ Running(t)
    /\ CanPass(t, e)
    /\ LET r == GetOrInit(global, e) IN
        /\ global' = r.cell
        /\ ret' = Returned(t, "try_set_global_default", e, IF r.ran THEN "Ok" ELSE "Err")
        /\ hooks' = IF r.ran THEN SetDefaultHooks(t, e) ELSE << >>
        /\ globalOk' = IF r.ran /\ Len(globalOk) < 2 THEN Append(globalOk, [thread |-> t, ev |-> e])
                       ELSE globalOk
    /\ UNCHANGED <<threadSlot, task, thread_state, stack, panic, threadCalled, ctx, evHeld, futs,
                   store>>

\* As if THREAD_EVALUATOR were one cell for all threads.
TrySetThreadDefault_Shared(t, e) ==
    /\ Running(t)
    /\ CanPass(t, e)
    /\ LET r == GetOrInit(threadSlot[t], e) IN
        /\ threadSlot' = [u \in Threads |-> r.cell]
        /\ ret' = Returned(t, "try_set_thread_default", e, IF r.ran THEN "Ok" ELSE "Err")
        /\ hooks' = IF r.ran THEN SetDefaultHooks(t, e) ELSE << >>
    /\ threadCalled' = [threadCalled EXCEPT ![t] = TRUE]
    /\ UNCHANGED <<global, task, thread_state, stack, panic, globalOk, ctx, evHeld, futs,
                   store>>

TrySetThreadDefault(t, e) ==
    /\ Running(t)
    /\ CanPass(t, e)
    /\ LET r == GetOrInit(threadSlot[t], e) IN
        /\ threadSlot' = [threadSlot EXCEPT ![t] = r.cell]
        /\ ret' = Returned(t, "try_set_thread_default", e, IF r.ran THEN "Ok" ELSE "Err")
        /\ hooks' = IF r.ran THEN SetDefaultHooks(t, e) ELSE << >>
    /\ threadCalled' = [threadCalled EXCEPT ![t] = TRUE]
    /\ UNCHANGED <<global, task, thread_state, stack, panic, globalOk, ctx, evHeld, futs,
                   store>>

\* with_default, line 97: the registration hook runs before anything is installed.
RegistrationHooks_None(t, e) == << >>

RegistrationHooks(t, e) == << Hook(t, "on_registration", e) >>

\* with_default_no_registration, line 111: the value written back to TASK_EVALUATOR.
RestoredOverride_Cleared(fr) == None

RestoredOverride(fr) == fr.saved

\* ContextStack::in_scope, line 39: the value written back to `current`.
RestoredContext_Cleared(fr) == None

RestoredContext(fr) == fr.saved

\* resume_unwind(payload): the panic that leaves the scoped call.
resume_unwind_Swallow(payload) == None

resume_unwind(payload) == payload

\* A frame of a scoped call.  val: the evaluator or context it installs;
\* phase: "registering" while on_registration runs, then "body"; saved: the
\* call's local old_thread_evaluator / old_context; entry (history): the
\* override or current context at the moment of the call; regs (history): the
\* on_registration invocations the call has made.
Frame(kind, val, phase, entry, saved, regs) ==
    [kind |-> kind, val |-> val, phase |-> phase, entry |-> entry, saved |-> saved,
     regs |-> regs]

\* with_default(evaluator, f) is called and reaches evaluator.on_registration()
\* (line 97); TASK_EVALUATOR is not touched yet.
WithDefaultCall_InstallFirst(t, e) ==
    /\ Running(t)
    /\ CanPass(t, e)
    /\ Active < MaxActive
    /\ hooks' = RegistrationHooks(t, e)
    /\ task' = [task EXCEPT ![t] = e]
    /\ stack' = [stack EXCEPT ![t] =
                    Append(@, Frame("with_default", e, "registering", task[t], task[t],
                                    Len(RegistrationHooks(t, e))))]
    /\ ret' = NoRet
    /\ UNCHANGED <<global, threadSlot, thread_state, panic, globalOk, threadCalled, ctx, evHeld, futs,
                   store>>

WithDefaultCall(t, e) ==
    /\ Running(t)
    /\ CanPass(t, e)
    /\ Active < MaxActive
    /\ hooks' = RegistrationHooks(t, e)
    /\ stack' = [stack EXCEPT ![t] =
                    Append(@, Frame("with_default", e, "registering", task[t], None,
                                    Len(RegistrationHooks(t, e))))]
    /\ ret' = NoRet
    /\ UNCHANGED <<global, threadSlot, task, thread_state, panic, globalOk, threadCalled, ctx, evHeld, futs,
                   store>>

\* on_registration returned; with_default_no_registration replaces
\* TASK_EVALUATOR (line 107) and starts the body (line 109).
WithDefaultInstall(t) ==
    /\ Running(t)
    /\ stack[t] # << >>
    /\ LET fr == Top(stack[t]) IN
        /\ fr.kind = "with_default"
        /\ fr.phase = "registering"
        /\ task' = [task EXCEPT ![t] = fr.val]
        /\ stack' = [stack EXCEPT ![t] =
                        Append(Pop(@), Frame(fr.kind, fr.val, "body", fr.entry, task[t], fr.regs))]
    /\ hooks' = << >>
    /\ ret' = NoRet
    /\ UNCHANGED <<global, threadSlot, thread_state, panic, globalOk, threadCalled, ctx, evHeld, futs,
                   store>>

\* The body returned: catch_unwind gives Ok, the override is written back
\* (line 111) and with_default returns the body's result (line 114).
WithDefaultReturn(t) ==
    /\ Running(t)
    /\ stack[t] # << >>
    /\ LET fr == Top(stack[t]) IN
        /\ fr.kind = "with_default"
        /\ fr.phase = "body"
        /\ task' = [task EXCEPT ![t] = RestoredOverride(fr)]
        /\ ret' = Returned(t, "with_default", fr.val, "Ok")
    /\ stack' = [stack EXCEPT ![t] = Pop(@)]
    /\ hooks' = << >>
    /\ UNCHANGED <<global, threadSlot, thread_state, panic, globalOk, threadCalled, ctx, evHeld, futs,
                   store>>

\* A panic reaches with_default.  Out of the body it is caught by catch_unwind
\* (line 109), the override is written back (line 111) and the payload is
\* raised again (line 115).  Out of on_registration (line 97) nothing catches
\* it and nothing was installed.
WithDefaultUnwind(t) ==
    /\ ~Running(t)
    /\ stack[t] # << >>
    /\ LET fr == Top(stack[t]) IN
        /\ fr.kind = "with_default"
        /\ IF fr.phase = "body"
              THEN /\ task' = [task EXCEPT ![t] = RestoredOverride(fr)]
                   /\ panic' = [panic EXCEPT ![t] = resume_unwind(@)]
              ELSE UNCHANGED <<task, panic>>
        /\ ret' = Returned(t, "with_default", fr.val, "Panic")
    /\ stack' = [stack EXCEPT ![t] = Pop(@)]
    /\ hooks' = << >>
    /\ UNCHANGED <<global, threadSlot, thread_state, globalOk, threadCalled, ctx, evHeld, futs,
                   store>>

----
\* Context stack

\* ContextStack::in_scope up to the start of the body: the thread's state is
\* created when missing (line 30) and `current` is replaced (lines 32-35).
InScopeEnter(t, c) ==
    /\ Running(t)
    /\ Active < MaxActive
    /\ thread_state' = [thread_state EXCEPT ![t] = c]
    /\ stack' = [stack EXCEPT ![t] =
                    Append(@, Frame("in_scope", c, "body", current(t), current(t), 0))]
    /\ hooks' = << >>
    /\ ret' = NoRet
    /\ UNCHANGED <<global, threadSlot, task, panic, globalOk, threadCalled, ctx, evHeld, futs,
                   store>>

\* The body returned: `current` is written back (line 39), in_scope returns (line 42).
InScopeReturn(t) ==
    /\ Running(t)
    /\ stack[t] # << >>
    /\ LET fr == Top(stack[t]) IN
        /\ fr.kind = "in_scope"
        /\ thread_state' = [thread_state EXCEPT ![t] = RestoredContext(fr)]
        /\ ret' = Returned(t, "in_scope", fr.val, "Ok")
    /\ stack' = [stack EXCEPT ![t] = Pop(@)]
    /\ hooks' = << >>
    /\ UNCHANGED <<global, threadSlot, task, panic, globalOk, threadCalled, ctx, evHeld, futs,
                   store>>

\* The body panicked: caught (line 37), `current` written back (line 39),
\* payload raised again (line 43).
InScopeUnwind(t) ==
    /\ ~Running(t)
    /\ stack[t] # << >>
    /\ LET fr == Top(stack[t]) IN
        /\ fr.kind = "in_scope"
        /\ thread_state' = [thread_state EXCEPT ![t] = RestoredContext(fr)]
        /\ ret' = Returned(t, "in_scope", fr.val, "Panic")
    /\ panic' = [panic EXCEPT ![t] = resume_unwind(@)]
    /\ stack' = [stack EXCEPT ![t] = Pop(@)]
    /\ hooks' = << >>
    /\ UNCHANGED <<global, threadSlot, task, globalOk, threadCalled, ctx, evHeld, futs,
                   store>>

----
\* Context tree

CtxHook(t, name, e, c) == [thread |-> t, hook |-> name, ev |-> e, ctx |-> c]

\* Context::is_root
is_root(c) == c = "Root"

\* A context user code can name: the root (Context::root()) or a context of
\* which it holds a clone.
Usable(c) == is_root(c) \/ (c \in CtxIds /\ ctx[c].state = "live" /\ ctx[c].held)

\* The next context id to construct, None when all have been used.
FreshId ==
    LET I == {i \in 1..Len(CtxOrder) : ctx[CtxOrder[i]].state = "unborn"} IN
    IF I = {} THEN None ELSE CtxOrder[CHOOSE i \in I : \A j \in I : i <= j]

\* new_with_parent, lines 50-52: a root parent is stored as no parent.
StoredParent_Keep(p) == p

StoredParent(p) == IF p # None /\ is_root(p) THEN None ELSE p

\* new_with_parent, lines 55-72: the evaluator on which on_new_context is
\* invoked, given what get_default resolved.
NewContextHooks_Twice(t, e, c) ==
    << CtxHook(t, "on_new_context", e, c), CtxHook(t, "on_new_context", e, c) >>

NewContextHooks(t, e, c) ==
    IF e # None THEN << CtxHook(t, "on_new_context", e, c) >> ELSE << >>

\* The function through which a running new_with_parent was called: a frame
\* of Context::new has no parent argument of the caller.
CalledAs(fr) == IF fr.saved = Absent THEN "new" ELSE "new_with_parent"

\* Context::new_with_parent(parent, fields) on thread t, called directly or by
\* Context::new (op).  With an evaluator the Data is built and on_new_context
\* is running (lines 57-63); with none the context is complete at once
\* (lines 67-76).
Construct(t, p, op) ==
    /\ Running(t)
    /\ FreshId # None
    /\ LET c == FreshId
           e == get_default(t)
           d == [NoData EXCEPT !.ev = e, !.parent = StoredParent(p), !.born = e, !.arg = p,
                               !.opened = Len(NewContextHooks(t, e, c))]
       IN /\ hooks' = NewContextHooks(t, e, c)
          /\ IF e # None
                THEN /\ Active < MaxActive
                     /\ ctx' = [ctx EXCEPT ![c] = [d EXCEPT !.state = "constructing"]]
                     /\ stack' = [stack EXCEPT ![t] =
                                    Append(@, Frame("new_context", c, "constructing", current(t),
                                                    IF op = "new" THEN Absent ELSE p, 0))]
                     /\ ret' = NoRet
                ELSE /\ ctx' = [ctx EXCEPT ![c] =
                                    [d EXCEPT !.state = "live", !.held = TRUE, !.completed = TRUE]]
                     /\ stack' = stack
                     /\ ret' = Returned(t, op, c, "Ok")
    /\ UNCHANGED <<global, threadSlot, task, thread_state, panic, globalOk, threadCalled, evHeld, futs,
                   store>>

\* Context::new_with_parent with an explicit parent argument.
NewWithParent(t, p) ==
    /\ p = None \/ Usable(p)
    /\ Construct(t, p, "new_with_parent")

\* Context::new: the parent is the thread's current context (line 40).
ContextNew_Orphan(t) == Construct(t, None, "new")

ContextNew(t) == Construct(t, current(t), "new")

\* The on_new_context of E1 inserts an extension in the context, as that of
\* TestEvaluator does (featureflag-test/src/lib.rs:57-60); E2 keeps the default,
\* empty hook (evaluator.rs:57-59).
Inserts(e) == e = "E1"

\* The value the on_new_context of evaluator e inserts for context c, made from
\* the fields of c (featureflag-test/src/lib.rs:58-59).
Inserted(e, c) == [by |-> e, of |-> c]

\* on_new_context returned: the Data is wrapped in an Arc and the context is
\* returned (lines 65, 74-76).
NewContextReturn(t) ==
    /\ Running(t)
    /\ stack[t] # << >>
    /\ LET fr == Top(stack[t]) IN
        /\ fr.kind = "new_context"
        /\ ctx' = [ctx EXCEPT ![fr.val] =
                        [@ EXCEPT !.state = "live", !.held = TRUE, !.completed = TRUE,
                                  !.ext = IF Inserts(ctx[fr.val].ev)
                                            THEN {Inserted(ctx[fr.val].ev, fr.val)}
                                            ELSE {}]]
        /\ ret' = Returned(t, CalledAs(fr), fr.val, "Ok")
    /\ stack' = [stack EXCEPT ![t] = Pop(@)]
    /\ hooks' = << >>
    /\ UNCHANGED <<global, threadSlot, task, thread_state, panic, globalOk, threadCalled, evHeld, futs,
                   store>>

\* Some clone of context c is left when the contexts are as in cx: one held by
\* user code, by the parent link of a child, by a thread's context stack or by
\* the old_context of an active in_scope.
Referenced_NoParentLink(cx, c) ==
    \/ cx[c].held
    \/ \E t \in Threads : thread_state[t] = c
    \/ \E fr \in Frames : fr.kind = "in_scope" /\ fr.saved = c

Referenced(cx, c) ==
    \/ cx[c].held
    \/ \E d \in CtxIds : cx[d].state \in {"constructing", "live"} /\ cx[d].parent = c
    \/ \E t \in Threads : thread_state[t] = c
    \/ \E fr \in Frames : fr.kind = "in_scope" /\ fr.saved = c

\* The contexts whose Data is dropped when the Data of c is dropped, in order:
\* c, then its parent when the link of c was the last clone of it, and so on.
RECURSIVE DropChain(_, _)
DropChain(cx, c) ==
    LET cx1 == [cx EXCEPT ![c].state = "destroyed"]
        p == cx[c].parent
    IN <<c>> \o (IF p # None /\ ~Referenced(cx1, p) THEN DropChain(cx1, p) ELSE << >>)

\* Drop for Data (lines 151-157): on_close_context is invoked when the
\* evaluator of the context can be upgraded.
CloseHooks_Always(t, c) == << CtxHook(t, "on_close_context", ctx[c].ev, c) >>

CloseHooks(t, c) ==
    IF upgrade(ctx[c].ev) # None
        THEN << CtxHook(t, "on_close_context", upgrade(ctx[c].ev), c) >>
        ELSE << >>

RECURSIVE ChainHooks(_, _)
ChainHooks(t, chain) ==
    IF chain = << >> THEN << >>
    ELSE CloseHooks(t, Head(chain)) \o ChainHooks(t, Tail(chain))

\* The contexts after thread t has dropped the Data of the contexts in chain:
\* of a dropped Data only the history is kept.
Dropped(cx, t, chain) ==
    [c \in CtxIds |->
        IF c \in {chain[i] : i \in 1..Len(chain)}
            THEN [NoData EXCEPT !.state = "destroyed",
                                !.opened = cx[c].opened,
                                !.completed = cx[c].completed,
                                !.closed = IF cx[c].closed + Len(CloseHooks(t, c)) > 2 THEN 2
                                           ELSE cx[c].closed + Len(CloseHooks(t, c))]
            ELSE cx[c]]

\* on_new_context panicked: the unwinding drops the local Data (line 57), which
\* runs Drop for Data, and the panic leaves new_with_parent.
NewContextUnwind(t) ==
    /\ ~Running(t)
    /\ stack[t] # << >>
    /\ LET fr == Top(stack[t]) IN
        /\ fr.kind = "new_context"
        /\ LET chain == DropChain(ctx, fr.val) IN
            /\ ctx' = Dropped(ctx, t, chain)
            /\ hooks' = ChainHooks(t, chain)
        /\ ret' = Returned(t, CalledAs(fr), fr.val, "Panic")
    /\ stack' = [stack EXCEPT ![t] = Pop(@)]
    /\ UNCHANGED <<global, threadSlot, task, thread_state, panic, globalOk, threadCalled, evHeld, futs,
                   store>>

\* A call that is active borrows a clone of context c from its caller: the
\* &self of in_scope, the parent argument of new_with_parent.
Borrowed(c) ==
    \E fr \in Frames :
        \/ fr.kind = "in_scope" /\ fr.val = c
        \/ fr.kind = "new_context" /\ ctx[fr.val].arg = c

\* User code on thread t drops its last clone of context c.  When no other
\* clone is left the Data is dropped, and with it the parent link.
Release(t, c) ==
    /\ Running(t)
    /\ ctx[c].state = "live"
    /\ ctx[c].held
    /\ ~Borrowed(c)
    /\ LET cx1 == [ctx EXCEPT ![c].held = FALSE]
           chain == IF Referenced(cx1, c) THEN << >> ELSE DropChain(cx1, c)
       IN /\ ctx' = Dropped(cx1, t, chain)
          /\ hooks' = ChainHooks(t, chain)
    /\ ret' = Returned(t, "drop", c, "Ok")
    /\ UNCHANGED <<global, threadSlot, task, thread_state, stack, panic, globalOk, threadCalled,
                   evHeld, futs,
                   store>>

\* User code drops its last strong handle to evaluator e.
DropHandle(e) ==
    /\ e \in evHeld
    /\ evHeld' = evHeld \ {e}
    /\ hooks' = << >>
    /\ ret' = NoRet
    /\ UNCHANGED <<global, threadSlot, task, thread_state, stack, panic, globalOk, threadCalled,
                   ctx, futs,
                   store>>

\* Context::parent (lines 107-113): None for the root, else the stored parent,
\* else the root.
parent_NoRootDefault(c) == IF is_root(c) THEN None ELSE ctx[c].parent

parent(c) ==
    IF is_root(c) THEN None
    ELSE IF ctx[c].parent # None THEN ctx[c].parent
    ELSE "Root"

\* core::iter::successors(Some(first), Context::parent), as a sequence.
RECURSIVE successors(_)
successors(first) ==
    <<first>> \o (IF parent(first) = None THEN << >> ELSE successors(parent(first)))

\* Context::iter (lines 124-126): successors(Some(self), parent).
iter_FromParent(c) == IF parent(c) = None THEN << >> ELSE successors(parent(c))

iter(c) == successors(c)

\* ContextRef::iter (lines 186-188): the ancestors of the stored parent, the
\* context of the ContextRef itself left out; nothing without a stored parent.
ContextRef_iter_Self(c) == iter(c)

ContextRef_iter(c) == IF ctx[c].parent = None THEN << >> ELSE iter(ctx[c].parent)

\* Context::extensions (lines 116-121): the extensions of the context's own
\* Data, none for the root.
extensions_Inherited(c) ==
    UNION {IF is_root(iter(c)[i]) THEN {} ELSE ctx[iter(c)[i]].ext : i \in 1..Len(iter(c))}

extensions(c) == IF is_root(c) THEN {} ELSE ctx[c].ext

\* Context::evaluator (lines 134-142): the snapshot, upgraded; for the root,
\* what get_default gives now.
evaluator_Ambient(t, c) == get_default(t)

evaluator(t, c) == IF is_root(c) THEN get_default(t) ELSE upgrade(ctx[c].ev)

\* The features asked about, and Evaluator::is_enabled of the two evaluators as
\* an Option<bool> ({} is None): E1 enables "f", E2 disables it, both abstain
\* on "g"; NoEvaluator abstains on both.
Features == {"f", "g"}

Answer(e, f) == IF e = NoEv \/ f # "f" THEN {} ELSE {e = "E1"}

\* Feature::get_state_in (feature.rs, lines 47-50), called on thread t.
get_state_in(t, c, f) ==
    LET context == IF c = None THEN "Root" ELSE c
        e == evaluator(t, context)
    IN IF e = None THEN {} ELSE Answer(e, f)

\* Option::unwrap_or_else with a default_fn that returns default (feature.rs,
\* line 74): the value, and whether default_fn was invoked.
unwrap_or_else_Eager(s, default) ==
    [value |-> IF s = {} THEN default ELSE CHOOSE b \in s : TRUE, called |-> TRUE]

unwrap_or_else(s, default) ==
    [value |-> IF s = {} THEN default ELSE CHOOSE b \in s : TRUE, called |-> s = {}]

\* Feature::is_enabled_in (feature.rs, lines 72-75).
is_enabled_in(t, c, f, default) == unwrap_or_else(get_state_in(t, c, f), default).value

\* Whether Feature::is_enabled_in invokes default_fn.
default_fn_called(t, c, f, default) == unwrap_or_else(get_state_in(t, c, f), default).called

\* Feature::get_state (feature.rs, lines 54-56), called on thread t.
get_state_Root(t, f) == get_state_in(t, None, f)

get_state(t, f) == get_state_in(t, current(t), f)

\* Feature::is_enabled (feature.rs, lines 63-65), called on thread t.
is_enabled(t, f, default) == is_enabled_in(t, current(t), f, default)

\* Context::in_scope on a context the caller can name.
InScopeOf(t, c) ==
    /\ Usable(c)
    /\ InScopeEnter(t, c)

----
\* User code

\* The code running on top of the thread's stack (a body or a hook) panics.
Panic(t, p) ==
    /\ Running(t)
    /\ stack[t] # << >>
    /\ panic' = [panic EXCEPT ![t] = p]
    /\ hooks' = << >>
    /\ ret' = NoRet
    /\ UNCHANGED <<global, threadSlot, task, thread_state, stack, globalOk, threadCalled, ctx, evHeld, futs,
                   store>>

\* The code the panic has reached catches it (std::panic::catch_unwind in
\* user code, a test harness, a thread join).
Catch(t) ==
    /\ ~Running(t)
    /\ panic' = [panic EXCEPT ![t] = None]
    /\ hooks' = << >>
    /\ ret' = NoRet
    /\ UNCHANGED <<global, threadSlot, task, thread_state, stack, globalOk, threadCalled, ctx, evHeld, futs,
                   store>>

----
\* Wrapped futures and streams

\* AnyExt::wrap_context(context) (utils.rs, lines 21-28): the future is stored
\* with the context and has not been polled.
WrapContext(f, c) ==
    /\ futs[f].state = "none"
    /\ futs' = [futs EXCEPT ![f] = [NoFuture EXCEPT !.state = "pending", !.kind = "context",
                                                   !.context = c]]
    /\ hooks' = << >>
    /\ ret' = NoRet
    /\ UNCHANGED <<global, threadSlot, task, thread_state, stack, panic, globalOk, threadCalled,
                   ctx, evHeld,
                   store>>

\* WrapContext::poll / poll_next on thread t up to the start of the inner poll
\* (utils.rs, lines 89-95, 103-109): context.in_scope replaces the thread's
\* current context (stack.rs, lines 30-35) and runs inner.poll.
PollEnter(t, f) ==
    /\ Running(t)
    /\ Active < MaxActive
    /\ futs[f].state = "pending"
    /\ futs[f].kind = "context"
    /\ thread_state' = [thread_state EXCEPT ![t] = futs[f].context]
    /\ stack' = [stack EXCEPT ![t] =
                    Append(@, Frame("poll", f, "body", current(t), current(t), 0))]
    /\ futs' = [futs EXCEPT ![f].state = "polling"]
    /\ hooks' = << >>
    /\ ret' = NoRet
    /\ UNCHANGED <<global, threadSlot, task, panic, globalOk, threadCalled, ctx, evHeld,
                   store>>

\* What the inner poll can return: a stream that gave an item is polled again.
PollOutcomes(f) == IF IsStream(f) THEN {"Pending", "Item", "Ready"} ELSE {"Pending", "Ready"}

\* The inner poll returned out: in_scope writes the current context back
\* (stack.rs, line 39) and poll returns out.
PollReturn(t, out) ==
    /\ Running(t)
    /\ stack[t] # << >>
    /\ LET fr == Top(stack[t]) IN
        /\ fr.kind = "poll"
        /\ out \in PollOutcomes(fr.val)
        /\ thread_state' = [thread_state EXCEPT ![t] = RestoredContext(fr)]
        /\ futs' = [futs EXCEPT ![fr.val].state = IF out = "Ready" THEN "ready" ELSE "pending"]
        /\ ret' = Returned(t, "poll", fr.val, out)
    /\ stack' = [stack EXCEPT ![t] = Pop(@)]
    /\ hooks' = << >>
    /\ UNCHANGED <<global, threadSlot, task, panic, globalOk, threadCalled, ctx, evHeld,
                   store>>

\* The inner poll panicked: in_scope catches (stack.rs, line 37), writes the
\* current context back (line 39) and raises the payload again (line 43).
PollUnwind(t) ==
    /\ ~Running(t)
    /\ stack[t] # << >>
    /\ LET fr == Top(stack[t]) IN
        /\ fr.kind = "poll"
        /\ thread_state' = [thread_state EXCEPT ![t] = RestoredContext(fr)]
        /\ futs' = [futs EXCEPT ![fr.val].state = "failed"]
        /\ ret' = Returned(t, "poll", fr.val, "Panic")
    /\ panic' = [panic EXCEPT ![t] = resume_unwind(@)]
    /\ stack' = [stack EXCEPT ![t] = Pop(@)]
    /\ hooks' = << >>
    /\ UNCHANGED <<global, threadSlot, task, globalOk, threadCalled, ctx, evHeld,
                   store>>

\* AnyExt::wrap_evaluator(evaluator) (utils.rs, lines 50-59): the future is
\* stored with the evaluator, not registered and not polled.
WrapEvaluator(t, f, e) ==
    /\ Running(t)
    /\ CanPass(t, e)
    /\ futs[f].state = "none"
    /\ futs' = [futs EXCEPT ![f] = [NoFuture EXCEPT !.state = "pending", !.kind = "evaluator",
                                                   !.evaluator = e, !.registered = FALSE,
                                                   !.by = "wrap_evaluator"]]
    /\ hooks' = << >>
    /\ ret' = NoRet
    /\ UNCHANGED <<global, threadSlot, task, thread_state, stack, panic, globalOk, threadCalled,
                   ctx, evHeld, store>>

\* inherit_evaluator, lines 68-69: what is stored when get_default gave e.
Inherited_Option(e) == e

Inherited(e) == IF e = None THEN NoEv ELSE e

\* AnyExt::inherit_evaluator() on thread t (utils.rs, lines 64-75): the future
\* is stored with what get_default gives now, as registered.
InheritEvaluator(t, f) ==
    /\ Running(t)
    /\ futs[f].state = "none"
    /\ futs' = [futs EXCEPT ![f] = [NoFuture EXCEPT !.state = "pending", !.kind = "evaluator",
                                                   !.evaluator = Inherited(get_default(t)),
                                                   !.registered = TRUE,
                                                   !.by = "inherit_evaluator",
                                                   !.captured = get_default(t)]]
    /\ hooks' = << >>
    /\ ret' = NoRet
    /\ UNCHANGED <<global, threadSlot, task, thread_state, stack, panic, globalOk, threadCalled,
                   ctx, evHeld, store>>

\* WrapEvaluator::poll / poll_next, lines 134-137: on_registration is invoked
\* when the future is not registered.
PollRegistrationHooks_Always(t, w) == << Hook(t, "on_registration", w.evaluator) >>

PollRegistrationHooks(t, w) ==
    IF ~w.registered THEN << Hook(t, "on_registration", w.evaluator) >> ELSE << >>

\* WrapEvaluator::poll / poll_next on thread t (utils.rs, lines 125-141,
\* 148-164) up to the first code of the user: on_registration when the future
\* is not registered (line 135), else the inner poll, which
\* with_default_no_registration runs after it has replaced TASK_EVALUATOR
\* (global.rs, line 107).
EvalPollEnter(t, f) ==
    /\ Running(t)
    /\ Active < MaxActive
    /\ futs[f].state = "pending"
    /\ futs[f].kind = "evaluator"
    /\ LET w == futs[f]
           n == Len(PollRegistrationHooks(t, w))
       IN /\ hooks' = PollRegistrationHooks(t, w)
          /\ futs' = [futs EXCEPT ![f].state = "polling",
                                  ![f].regs = IF w.regs + n > 2 THEN 2 ELSE w.regs + n]
          /\ IF n > 0
                THEN /\ stack' = [stack EXCEPT ![t] =
                                    Append(@, Frame("poll_evaluator", f, "registering", task[t],
                                                    None, n))]
                     /\ task' = task
                ELSE /\ stack' = [stack EXCEPT ![t] =
                                    Append(@, Frame("poll_evaluator", f, "body", task[t],
                                                    task[t], 0))]
                     /\ task' = [task EXCEPT ![t] = w.evaluator]
    /\ ret' = NoRet
    /\ UNCHANGED <<global, threadSlot, thread_state, panic, globalOk, threadCalled, ctx, evHeld,
                   store>>

\* on_registration returned: the future is registered (line 136),
\* with_default_no_registration replaces TASK_EVALUATOR (global.rs, line 107)
\* and the inner poll starts.
EvalPollInstall(t) ==
    /\ Running(t)
    /\ stack[t] # << >>
    /\ LET fr == Top(stack[t]) IN
        /\ fr.kind = "poll_evaluator"
        /\ fr.phase = "registering"
        /\ futs' = [futs EXCEPT ![fr.val].registered = TRUE]
        /\ task' = [task EXCEPT ![t] = futs[fr.val].evaluator]
        /\ stack' = [stack EXCEPT ![t] =
                        Append(Pop(@), Frame(fr.kind, fr.val, "body", fr.entry, task[t], fr.regs))]
    /\ hooks' = << >>
    /\ ret' = NoRet
    /\ UNCHANGED <<global, threadSlot, thread_state, panic, globalOk, threadCalled, ctx, evHeld,
                   store>>

\* The inner poll returned out: with_default_no_registration writes the
\* override back (global.rs, line 111) and poll returns out.
EvalPollReturn(t, out) ==
    /\ Running(t)
    /\ stack[t] # << >>
    /\ LET fr == Top(stack[t]) IN
        /\ fr.kind = "poll_evaluator"
        /\ fr.phase = "body"
        /\ out \in PollOutcomes(fr.val)
        /\ task' = [task EXCEPT ![t] = RestoredOverride(fr)]
        /\ futs' = [futs EXCEPT ![fr.val].state = IF out = "Ready" THEN "ready" ELSE "pending",
                                ![fr.val].last = t]
        /\ ret' = Returned(t, "poll", fr.val, out)
    /\ stack' = [stack EXCEPT ![t] = Pop(@)]
    /\ hooks' = << >>
    /\ UNCHANGED <<global, threadSlot, thread_state, panic, globalOk, threadCalled, ctx, evHeld,
                   store>>

\* A panic reaches WrapEvaluator::poll.  Out of the inner poll it is caught,
\* the override is written back and the payload is raised again (global.rs,
\* lines 109-115).  Out of on_registration (utils.rs, line 135) nothing catches
\* it: the future stays unregistered, nothing was installed and the inner
\* future has not been polled.
EvalPollUnwind(t) ==
    /\ ~Running(t)
    /\ stack[t] # << >>
    /\ LET fr == Top(stack[t]) IN
        /\ fr.kind = "poll_evaluator"
        /\ IF fr.phase = "body"
              THEN /\ task' = [task EXCEPT ![t] = RestoredOverride(fr)]
                   /\ panic' = [panic EXCEPT ![t] = resume_unwind(@)]
                   /\ futs' = [futs EXCEPT ![fr.val].state = "failed", ![fr.val].last = t]
              ELSE /\ UNCHANGED <<task, panic>>
                   /\ futs' = [futs EXCEPT ![fr.val].state = "pending", ![fr.val].last = t]
        /\ ret' = Returned(t, "poll", fr.val, "Panic")
    /\ stack' = [stack EXCEPT ![t] = Pop(@)]
    /\ hooks' = << >>
    /\ UNCHANGED <<global, threadSlot, thread_state, globalOk, threadCalled, ctx, evHeld,
                   store>>

----
\* Evaluator combinators

Leaves == Evaluators \cup {NoEv}

\* An evaluator value: a plain evaluator, Chain(first, second) or
\* Filter { evaluator, filter_fn }.  A filter_fn is the set of names it accepts.
Leaf(l) == [op |-> "Leaf", name |-> l]

Chain(a, b) == [op |-> "Chain", first |-> a, second |-> b]

Filter(a, P) == [op |-> "Filter", inner |-> a, pred |-> P]

Predicates == SUBSET Features

\* EvaluatorExt::chain and EvaluatorExt::filter applied to the evaluators in S.
Nest(S) ==
    S \cup {Chain(a, b) : a \in S, b \in S} \cup {Filter(a, P) : a \in S, P \in Predicates}

\* The evaluators built with at most two applications in depth.
Combined == Nest(Nest({Leaf(l) : l \in Leaves}))

\* Evaluator::is_enabled of a plain evaluator.
LeafAnswer(l, f) == IF l = NoEv THEN {} ELSE Answer(l, f)

\* An invocation of is_enabled on a plain evaluator, and of a lifecycle hook on
\* it with the extensions of the ContextRef it is given.
AskCall(t, l, f) == [thread |-> t, hook |-> "is_enabled", ev |-> l, feature |-> f]

HookCall(t, name, l, seen) == [thread |-> t, hook |-> name, ev |-> l, seen |-> seen]

\* Option::or_else in Chain::is_enabled (lines 289-293): the second answer is
\* computed only when the first is None.
or_else_Eager(a, b) ==
    [res |-> IF a.res # {} THEN a.res ELSE b.res, calls |-> a.calls \o b.calls]

or_else(a, b) ==
    IF a.res # {} THEN a ELSE [res |-> b.res, calls |-> a.calls \o b.calls]

\* Filter::is_enabled (lines 264-270): the inner evaluator is asked only when
\* filter_fn accepts the name.
Filtered_AskInner(pass, r) == [res |-> IF pass THEN r.res ELSE {}, calls |-> r.calls]

Filtered(pass, r) == IF pass THEN r ELSE [res |-> {}, calls |-> << >>]

\* Evaluator::is_enabled(feature f) on evaluator ev, called on thread t: the
\* answer and the invocations of the plain evaluators, in order.
RECURSIVE Evaluator_is_enabled(_, _, _)
Evaluator_is_enabled(t, ev, f) ==
    CASE ev.op = "Leaf" ->
            [res |-> LeafAnswer(ev.name, f), calls |-> << AskCall(t, ev.name, f) >>]
      [] ev.op = "Chain" ->
            or_else(Evaluator_is_enabled(t, ev.first, f), Evaluator_is_enabled(t, ev.second, f))
      [] ev.op = "Filter" ->
            Filtered(f \in ev.pred, Evaluator_is_enabled(t, ev.inner, f))

\* ContextRef::by_mut (context.rs, lines 190-192): the ContextRef handed to the
\* first evaluator is a reborrow of the same Data, so the Data the second one
\* gets is the Data as the first one left it (written), not as it was (data).
by_mut_Copy(data, written) == data

by_mut(data, written) == written

\* The hooks that have a ContextRef.
ContextHooks == {"on_new_context", "on_close_context"}

LifecycleHooks == {"on_registration"} \cup ContextHooks

\* A lifecycle hook of a plain evaluator on context c with extensions data:
\* the extensions when it returns.
LeafHook(name, l, c, data) ==
    IF name = "on_new_context" /\ l \in Evaluators /\ Inserts(l)
        THEN data \cup {Inserted(l, c)}
        ELSE data

\* A lifecycle hook (name) of evaluator ev for context c, called on thread t
\* with extensions data: the invocations of the plain evaluators, in order, and
\* the extensions at the end (Chain: lines 295-308, Filter: lines 272-282).
RECURSIVE Deliver(_, _, _, _, _)
Deliver(t, ev, name, c, data) ==
    CASE ev.op = "Leaf" ->
            [calls |-> << HookCall(t, name, ev.name, data) >>,
             data |-> LeafHook(name, ev.name, c, data)]
      [] ev.op = "Chain" ->
            LET r1 == Deliver(t, ev.first, name, c, data)
                r2 == Deliver(t, ev.second, name, c, by_mut(data, r1.data))
            IN [calls |-> r1.calls \o r2.calls, data |-> r2.data]
      [] ev.op = "Filter" -> Deliver(t, ev.inner, name, c, data)

\* No call on a combined evaluator has a result that user code still looks at.
Idle == ret = NoRet /\ hooks = << >>

\* Thread t asks evaluator ev for feature f.
EvaluatorIsEnabled(t, ev, f) ==
    LET r == Evaluator_is_enabled(t, ev, f) IN
    /\ Idle
    /\ hooks' = r.calls
    /\ ret' = Returned(t, "is_enabled", [ev |-> ev, feature |-> f], r.res)
    /\ UNCHANGED <<global, threadSlot, task, thread_state, stack, panic, globalOk, threadCalled,
                   ctx, evHeld, futs,
                   store>>

\* A lifecycle hook of evaluator ev is invoked on thread t, for context c with
\* extensions data when the hook has a ContextRef.
EvaluatorHook(t, ev, name, c, data) ==
    LET r == Deliver(t, ev, name, c, data) IN
    /\ Idle
    /\ name # "on_close_context" => data = {}
    /\ hooks' = r.calls
    /\ ret' = Returned(t, name, [ev |-> ev, ctx |-> c, data |-> data], r.data)
    /\ UNCHANGED <<global, threadSlot, task, thread_state, stack, panic, globalOk, threadCalled,
                   ctx, evHeld, futs,
                   store>>

----
\* Extensions

\* The types stored in an Extensions value and the values of each type.
Types == {"T1", "T2"}

Vals == {"v1", "v2", "v3"}

\* Extensions::get::<T> (extensions.rs, lines 28-33), None as the empty set.
ext_get(st, T) == IF ~st.some THEN {} ELSE {q[2] : q \in {r \in st.pairs : r[1] = T}}

\* Extensions::has::<T> (extensions.rs, lines 21-25).
ext_has(st, T) == st.some /\ \E q \in st.pairs : q[1] = T

\* HashMap::insert(TypeId::of::<T>(), value): the entry of the key is replaced.
hashmap_insert_Append(pairs, T, v) == pairs \cup {<<T, v>>}

hashmap_insert(pairs, T, v) == {q \in pairs : q[1] # T} \cup {<<T, v>>}

\* Extensions::insert::<T>(v) (extensions.rs, lines 46-52): the map is created
\* when missing and the previous value of the type is returned.
ExtInsert(T, v) ==
    /\ store' = [some |-> TRUE, pairs |-> hashmap_insert(store.pairs, T, v)]
    /\ ret' = Returned(None, "insert", [type |-> T, value |-> v], ext_get(store, T))
    /\ hooks' = << >>
    /\ UNCHANGED <<global, threadSlot, task, thread_state, stack, panic, globalOk, threadCalled,
                   ctx, evHeld, futs>>

\* Extensions::remove::<T>() (extensions.rs, lines 57-63): nothing happens
\* without a map; else the entry of the type is removed and returned.
ExtRemove(T) ==
    /\ store' = IF store.some
                    THEN [store EXCEPT !.pairs = {q \in store.pairs : q[1] # T}]
                    ELSE store
    /\ ret' = Returned(None, "remove", [type |-> T], ext_get(store, T))
    /\ hooks' = << >>
    /\ UNCHANGED <<global, threadSlot, task, thread_state, stack, panic, globalOk, threadCalled,
                   ctx, evHeld, futs>>

\* Extensions::get::<T>() and Extensions::has::<T>() as calls of user code.
ExtGet(T) ==
    /\ ret' = Returned(None, "get", [type |-> T], ext_get(store, T))
    /\ hooks' = << >>
    /\ UNCHANGED <<global, threadSlot, task, thread_state, stack, panic, globalOk, threadCalled,
                   ctx, evHeld, futs, store>>

ExtHas(T) ==
    /\ ret' = Returned(None, "has", [type |-> T], ext_has(store, T))
    /\ hooks' = << >>
    /\ UNCHANGED <<global, threadSlot, task, thread_state, stack, panic, globalOk, threadCalled,
                   ctx, evHeld, futs, store>>

----
\* Values and fields

\* Value (value.rs, lines 7-29): the variant, its payload written as text, and
\* for Str and Bytes whether the Cow borrows or owns its data.
Value(variant, payload, cow) == [variant |-> variant, payload |-> payload, cow |-> cow]

Values ==
    {Value(v, p, c) : v \in {"Str"}, p \in {"", "ab"}, c \in {"Borrowed", "Owned"}}
        \cup {Value(v, p, c) : v \in {"Bytes"}, p \in {"", "\\x00"}, c \in {"Borrowed", "Owned"}}
        \cup {Value("Bool", p, "-") : p \in {"false", "true"}}
        \cup {Value("I64", p, "-") : p \in {"-1", "9223372036854775807"}}
        \cup {Value("U64", p, "-") : p \in {"0", "18446744073709551615"}}
        \cup {Value("F64", p, "-") : p \in {"0.5", "-0.0", "NaN"}}
        \cup {Value("Null", "-", "-")}

\* Value::to_static (value.rs, lines 33-43).
to_static_Swapped(v) ==
    CASE v.variant = "Str" -> Value("Str", v.payload, "Owned")
      [] v.variant = "Bytes" -> Value("Bytes", v.payload, "Owned")
      [] v.variant = "Bool" -> Value("Bool", v.payload, "-")
      [] v.variant = "U64" -> Value("I64", v.payload, "-")
      [] v.variant = "I64" -> Value("U64", v.payload, "-")
      [] v.variant = "F64" -> Value("F64", v.payload, "-")
      [] v.variant = "Null" -> Value("Null", "-", "-")

to_static(v) ==
    CASE v.variant = "Str" -> Value("Str", v.payload, "Owned")
      [] v.variant = "Bytes" -> Value("Bytes", v.payload, "Owned")
      [] v.variant = "Bool" -> Value("Bool", v.payload, "-")
      [] v.variant = "U64" -> Value("U64", v.payload, "-")
      [] v.variant = "I64" -> Value("I64", v.payload, "-")
      [] v.variant = "F64" -> Value("F64", v.payload, "-")
      [] v.variant = "Null" -> Value("Null", "-", "-")

\* Value::into_static (value.rs, lines 46-56).
into_static(v) ==
    CASE v.variant = "Str" -> Value("Str", v.payload, "Owned")
      [] v.variant = "Bytes" -> Value("Bytes", v.payload, "Owned")
      [] v.variant = "Bool" -> Value("Bool", v.payload, "-")
      [] v.variant = "U64" -> Value("U64", v.payload, "-")
      [] v.variant = "I64" -> Value("I64", v.payload, "-")
      [] v.variant = "F64" -> Value("F64", v.payload, "-")
      [] v.variant = "Null" -> Value("Null", "-", "-")

\* The names and the values of the pairs of a Fields value, and the slices a
\* Fields value is made of (fields.rs, lines 12-20).
Keys == {"a", "b"}

FieldValues == {Value("I64", "-1", "-"), Value("Str", "ab", "Borrowed")}

Slices == UNION {[1..n -> Keys \X FieldValues] : n \in 0..MaxFields}

\* Iterator::find over the slice (fields.rs, line 29): the first position
\* whose name is the key, as a set that is empty when there is none.
find_Last(fields, key) ==
    LET hits == {i \in 1..Len(fields) : fields[i][1] = key}
    IN  {i \in hits : \A j \in hits : j <= i}

find(fields, key) ==
    LET hits == {i \in 1..Len(fields) : fields[i][1] = key}
    IN  {i \in hits : \A j \in hits : i <= j}

\* Fields::get (fields.rs, lines 28-30), None as the empty set.
Fields_get(fields, key) == {fields[i][2] : i \in find(fields, key)}

\* The calls of user code.
ToStatic(v) ==
    /\ ret' = Returned(None, "to_static", [value |-> v], to_static(v))
    /\ hooks' = << >>
    /\ UNCHANGED <<global, threadSlot, task, thread_state, stack, panic, globalOk, threadCalled,
                   ctx, evHeld, futs, store>>

IntoStatic(v) ==
    /\ ret' = Returned(None, "into_static", [value |-> v], into_static(v))
    /\ hooks' = << >>
    /\ UNCHANGED <<global, threadSlot, task, thread_state, stack, panic, globalOk, threadCalled,
                   ctx, evHeld, futs, store>>

FieldsGet(fields, key) ==
    /\ ret' = Returned(None, "Fields::get", [fields |-> fields, key |-> key],
                       Fields_get(fields, key))
    /\ hooks' = << >>
    /\ UNCHANGED <<global, threadSlot, task, thread_state, stack, panic, globalOk, threadCalled,
                   ctx, evHeld, futs, store>>

----
\* Specifications

\* The evaluator registry on its own.
NextRegistry ==
    \E t \in Threads :
        \/ \E e \in Evaluators : TrySetGlobalDefault(t, e)
        \/ \E e \in Evaluators : TrySetThreadDefault(t, e)
        \/ \E e \in Evaluators : WithDefaultCall(t, e)
        \/ WithDefaultInstall(t)
        \/ WithDefaultReturn(t)
        \/ WithDefaultUnwind(t)
        \/ \E p \in Payloads : Panic(t, p)
        \/ Catch(t)

SpecRegistry == Init /\ [][NextRegistry]_vars

\* The context stack on its own.
NextScope ==
    \E t \in Threads :
        \/ \E c \in Contexts : InScopeEnter(t, c)
        \/ InScopeReturn(t)
        \/ InScopeUnwind(t)
        \/ \E p \in Payloads : Panic(t, p)
        \/ Catch(t)

SpecScope == Init /\ [][NextScope]_vars

\* The context tree with the scoped evaluator override and the context stack.
\* One thread builds contexts and scopes; every thread can drop the contexts
\* that are shared with it.
Builder == "t1"

\* The evaluator whose handle user code drops; it keeps the other one.
Dropper == "E1"

NextContext ==
    \/ \E e \in Evaluators : WithDefaultCall(Builder, e)
    \/ WithDefaultInstall(Builder)
    \/ WithDefaultReturn(Builder)
    \/ WithDefaultUnwind(Builder)
    \/ \E p \in Contexts \cup {None} : NewWithParent(Builder, p)
    \/ ContextNew(Builder)
    \/ NewContextReturn(Builder)
    \/ NewContextUnwind(Builder)
    \/ \E c \in Contexts : InScopeOf(Builder, c)
    \/ InScopeReturn(Builder)
    \/ InScopeUnwind(Builder)
    \/ Panic(Builder, "P1")
    \/ Catch(Builder)
    \/ \E t \in Threads : \E c \in CtxIds : Release(t, c)
    \/ DropHandle(Dropper)

SpecContext == Init /\ [][NextContext]_vars

\* Contexts built and dropped by one thread while evaluators are installed in
\* the three tiers of the registry: E1 globally, E2 on the thread, either as an
\* override.
NextInstall ==
    \/ TrySetGlobalDefault(Builder, "E1")
    \/ TrySetThreadDefault(Builder, "E2")
    \/ \E e \in Evaluators : WithDefaultCall(Builder, e)
    \/ WithDefaultInstall(Builder)
    \/ WithDefaultReturn(Builder)
    \/ \E p \in Contexts \cup {None} : NewWithParent(Builder, p)
    \/ NewContextReturn(Builder)
    \/ \E c \in CtxIds : Release(Builder, c)

SpecInstall == Init /\ [][NextInstall]_vars

\* User code is done with the result of the last call.
Forget ==
    /\ ~Idle
    /\ ret' = NoRet
    /\ hooks' = << >>
    /\ UNCHANGED <<global, threadSlot, task, thread_state, stack, panic, globalOk, threadCalled,
                   ctx, evHeld, futs,
                   store>>

\* The evaluator combinators on their own: an evaluator built with chain and
\* filter is asked for a feature, or one of its lifecycle hooks is invoked.
\* The extensions of a closing context are empty or hold one value.
NextCombinators ==
    \/ /\ Idle
       /\ \E t \in Threads : \E ev \in Combined : \E f \in Features :
            EvaluatorIsEnabled(t, ev, f)
    \/ /\ Idle
       /\ \E t \in Threads : \E ev \in Combined : \E name \in LifecycleHooks :
          \E c \in CtxIds : \E data \in {{}, {Inserted("E1", c)}} :
            EvaluatorHook(t, ev, name, c, data)
    \/ Forget

SpecCombinators == Init /\ [][NextCombinators]_vars

\* Futures and streams wrapped with a context, polled by the threads between
\* and inside their scopes; a pending future can be polled by any thread.
NextAsync ==
    \/ \E f \in Futures : \E c \in Contexts : WrapContext(f, c)
    \/ \E t \in Threads :
        \/ \E f \in Futures : PollEnter(t, f)
        \/ \E out \in {"Pending", "Item", "Ready"} : PollReturn(t, out)
        \/ PollUnwind(t)
        \/ \E c \in Contexts : InScopeEnter(t, c)
        \/ InScopeReturn(t)
        \/ InScopeUnwind(t)
        \/ \E p \in Payloads : Panic(t, p)
        \/ Catch(t)

SpecAsync == Init /\ [][NextAsync]_vars

\* Futures and streams wrapped with an evaluator and polled on two threads,
\* also from within the poll of another: E2 is the evaluator wrapped, E1 the one
\* installed globally and on thread t2.
NextWrapEvaluator ==
    \/ \E t \in Threads : \E f \in Futures :
        \/ WrapEvaluator(t, f, "E2")
        \/ InheritEvaluator(t, f)
        \/ EvalPollEnter(t, f)
    \/ \E t \in Threads :
        \/ EvalPollInstall(t)
        \/ \E out \in {"Pending", "Item", "Ready"} : EvalPollReturn(t, out)
        \/ EvalPollUnwind(t)
        \/ Panic(t, "P1")
        \/ Catch(t)
    \/ TrySetThreadDefault("t2", "E1")
    \/ TrySetGlobalDefault("t1", "E1")

SpecWrapEvaluator == Init /\ [][NextWrapEvaluator]_vars

\* One Extensions value under the calls of user code.
NextExtensions ==
    \/ \E T \in Types : \E v \in Vals : ExtInsert(T, v)
    \/ \E T \in Types : ExtRemove(T)
    \/ \E T \in Types : ExtGet(T)
    \/ \E T \in Types : ExtHas(T)

SpecExtensions == Init /\ [][NextExtensions]_vars

\* Values converted and fields looked up by user code.
NextValues ==
    \/ \E v \in Values : ToStatic(v)
    \/ \E v \in Values : IntoStatic(v)
    \/ \E fields \in Slices : \E key \in Keys : FieldsGet(fields, key)

SpecValues == Init /\ [][NextValues]_vars

----
\* Properties

Max(S) == CHOOSE x \in S : \A y \in S : y <= x

Range(q) == {q[i] : i \in 1..Len(q)}

\* The positions of the with_default frames in a stack.
WithDefaultFrames(s) == {i \in 1..Len(s) : s[i].kind = "with_default"}

\* The evaluator of the innermost with_default whose body is running, None
\* when the thread is in no such body.
InnermostOverride(s) ==
    LET I == {i \in WithDefaultFrames(s) : s[i].phase = "body"} IN
    IF I = {} THEN None ELSE s[Max(I)].val

\* The evaluator of the try_set_global_default call that returned Ok.
GlobalWinner == IF globalOk = << >> THEN None ELSE globalOk[1].ev

\* C1: on every thread get_default yields the evaluator of the innermost
\* with_default whose body is running on that thread; when there is none, the
\* thread's slot if it is filled; when that is empty too, the evaluator that
\* try_set_global_default installed, and None when there is none.
C1_Precedence ==
    \A t \in Threads :
        LET o == InnermostOverride(stack[t]) IN
        /\ o # None => get_default(t) = o
        /\ (o = None /\ threadSlot[t] # None) => get_default(t) = threadSlot[t]
        /\ (o = None /\ threadSlot[t] = None) => get_default(t) = GlobalWinner

\* All three tiers are filled on one thread and the override differs from the
\* thread slot.
C1_Witness ==
    \E t \in Threads :
        /\ InnermostOverride(stack[t]) # None
        /\ threadSlot[t] # None
        /\ global # None
        /\ InnermostOverride(stack[t]) # threadSlot[t]

\* C2: once a try_set_global_default call has returned Ok with E1, every
\* try_set_global_default call returns Err and leaves E1 in the global slot,
\* and a thread with no override and an empty thread slot still gets E1 from
\* get_default.
C2_GlobalSetOnce ==
    [][(globalOk # << >> /\ ret'.op = "try_set_global_default") =>
            /\ ret'.res = "Err"
            /\ global' = globalOk[1].ev
            /\ \A t \in Threads :
                    (task'[t] = None /\ threadSlot'[t] = None)
                        => get_default(t)' = globalOk[1].ev]_vars

\* A second call with another evaluator has failed and a thread with no
\* override and no thread slot resolves to the first evaluator.
C2_Witness ==
    /\ ret.op = "try_set_global_default"
    /\ ret.res = "Err"
    /\ globalOk # << >>
    /\ ret.arg # globalOk[1].ev
    /\ \E t \in Threads :
            /\ task[t] = None
            /\ threadSlot[t] = None
            /\ get_default(t) = globalOk[1].ev

\* C3: of the try_set_global_default calls made by the threads, exactly one
\* returns Ok (once any call has returned, one call has returned Ok, and never
\* two), and whenever the global slot holds a value it is the evaluator of the
\* call that returned Ok.
C3_OneWinner ==
    /\ Len(globalOk) <= 1
    /\ global # None => (Len(globalOk) = 1 /\ global = globalOk[1].ev)
    /\ ret.op = "try_set_global_default" =>
            /\ Len(globalOk) = 1
            /\ ret.res = "Ok" => (ret.thread = globalOk[1].thread /\ ret.arg = globalOk[1].ev)

\* Two threads have called with different evaluators: one returned Ok, the
\* other has just returned Err, and the slot holds the winner's evaluator.
C3_Witness ==
    /\ ret.op = "try_set_global_default"
    /\ ret.res = "Err"
    /\ Len(globalOk) = 1
    /\ ret.thread # globalOk[1].thread
    /\ ret.arg # globalOk[1].ev
    /\ global = globalOk[1].ev

\* C4: the first try_set_thread_default call on a thread returns Ok and fills
\* that thread's slot with its evaluator; every later call on that thread
\* returns Err and leaves the slot as it is; no call changes the slot of
\* another thread.
C4_ThreadSetOnce ==
    [][\A t \in Threads :
        (ret'.op = "try_set_thread_default" /\ ret'.thread = t) =>
            /\ ~threadCalled[t] => (ret'.res = "Ok" /\ threadSlot'[t] = ret'.arg)
            /\ threadCalled[t] => (ret'.res = "Err" /\ threadSlot'[t] = threadSlot[t])
            /\ \A u \in Threads \ {t} : threadSlot'[u] = threadSlot[u]]_vars

\* A later call on a thread has failed and left its slot, while another
\* thread's slot holds a different evaluator.
C4_Witness ==
    /\ ret.op = "try_set_thread_default"
    /\ ret.res = "Err"
    /\ threadSlot[ret.thread] # ret.arg
    /\ \E u \in Threads \ {ret.thread} :
            /\ threadSlot[u] # None
            /\ threadSlot[u] # threadSlot[ret.thread]

\* C5: while the innermost with_default on a thread is running its body,
\* get_default on that thread yields that call's evaluator; and when a
\* with_default call returns normally the thread's override is what it was at
\* the moment of the call.
C5_WithDefaultScoped ==
    [][\A t \in Threads :
        /\ LET s == stack'[t]
               W == WithDefaultFrames(s)
           IN (W # {} /\ s[Max(W)].phase = "body") => get_default(t)' = s[Max(W)].val
        /\ (ret'.op = "with_default" /\ ret'.thread = t /\ ret'.res = "Ok")
                => task'[t] = Top(stack[t]).entry]_vars

\* A nested with_default has returned normally into the body of an outer
\* with_default of a different evaluator, which is the override again.
C5_Witness ==
    /\ ret.op = "with_default"
    /\ ret.res = "Ok"
    /\ stack[ret.thread] # << >>
    /\ Top(stack[ret.thread]).kind = "with_default"
    /\ Top(stack[ret.thread]).phase = "body"
    /\ task[ret.thread] = Top(stack[ret.thread]).val
    /\ task[ret.thread] # ret.arg

\* C6: when a panic leaves with_default, the thread's override is what it was
\* at the moment of the call and the payload that leaves is the payload that
\* reached with_default.
C6_WithDefaultPanic ==
    [][\A t \in Threads :
        (ret'.op = "with_default" /\ ret'.thread = t /\ ret'.res = "Panic") =>
            /\ task'[t] = Top(stack[t]).entry
            /\ panic[t] # None
            /\ panic'[t] = panic[t]]_vars

\* The body of a nested with_default has panicked: the panic is in the body of
\* the outer with_default, whose evaluator is the override again.
C6_Witness ==
    /\ ret.op = "with_default"
    /\ ret.res = "Panic"
    /\ panic[ret.thread] # None
    /\ stack[ret.thread] # << >>
    /\ Top(stack[ret.thread]).phase = "body"
    /\ task[ret.thread] = Top(stack[ret.thread]).val
    /\ task[ret.thread] # ret.arg

\* The positions of the in_scope frames in a stack.
InScopeFrames(s) == {i \in 1..Len(s) : s[i].kind = "in_scope"}

\* C7: while in_scope calls are active on a thread, Context::current() on it
\* returns the context of the innermost one; and when an in_scope call returns
\* normally the thread's current context is what it was at the moment of the
\* call.
C7_InScopeScoped ==
    [][\A t \in Threads :
        /\ LET s == stack'[t]
               I == InScopeFrames(s)
           IN I # {} => current(t)' = s[Max(I)].val
        /\ (ret'.op = "in_scope" /\ ret'.thread = t /\ ret'.res = "Ok")
                => current(t)' = Top(stack[t]).entry]_vars

\* A nested in_scope has returned normally into the body of an outer in_scope
\* of a different context, which is current again.
C7_Witness ==
    /\ ret.op = "in_scope"
    /\ ret.res = "Ok"
    /\ stack[ret.thread] # << >>
    /\ Top(stack[ret.thread]).kind = "in_scope"
    /\ current(ret.thread) = Top(stack[ret.thread]).val
    /\ current(ret.thread) # ret.arg

\* C8: when a panic leaves in_scope, the thread's current context is what it
\* was at the moment of the call and the payload that leaves is the payload
\* that reached in_scope.
C8_InScopePanic ==
    [][\A t \in Threads :
        (ret'.op = "in_scope" /\ ret'.thread = t /\ ret'.res = "Panic") =>
            /\ current(t)' = Top(stack[t]).entry
            /\ panic[t] # None
            /\ panic'[t] = panic[t]]_vars

\* The body of a nested in_scope has panicked: the panic is in the body of the
\* outer in_scope, whose context is current again.
C8_Witness ==
    /\ ret.op = "in_scope"
    /\ ret.res = "Panic"
    /\ panic[ret.thread] # None
    /\ stack[ret.thread] # << >>
    /\ current(ret.thread) = Top(stack[ret.thread]).val
    /\ current(ret.thread) # ret.arg

\* C9: every step that installs an evaluator in a tier of the registry goes
\* with an invocation of that evaluator's on_registration: the global slot and
\* the thread slot are filled by a step that invokes it, and the task override
\* is installed by a with_default call that has invoked it.
C9_InstallRegisters ==
    [][/\ \A e \in Evaluators :
            (global # e /\ global' = e)
                => \E h \in Range(hooks') : h.hook = "on_registration" /\ h.ev = e
       /\ \A t \in Threads : \A e \in Evaluators :
            (threadSlot[t] # e /\ threadSlot'[t] = e)
                => \E h \in Range(hooks') : h.hook = "on_registration" /\ h.ev = e
       /\ \A t \in Threads :
            (stack'[t] # << >> /\ Top(stack'[t]).kind = "with_default"
                /\ Top(stack'[t]).phase = "body")
                => Top(stack'[t]).regs >= 1]_vars

\* C10: a with_default(E, body) call invokes E.on_registration once, in its
\* first step, which leaves the thread's override alone; the step that makes E
\* the override and starts the body comes after it and invokes no hook.
C10_RegisterOnceFirst ==
    [][\A t \in Threads :
        /\ \A i \in WithDefaultFrames(stack'[t]) : stack'[t][i].regs = 1
        /\ Len(stack'[t]) > Len(stack[t]) /\ Top(stack'[t]).kind = "with_default"
            => /\ hooks' = << Hook(t, "on_registration", Top(stack'[t]).val) >>
               /\ Top(stack'[t]).phase = "registering"
               /\ task'[t] = task[t]
        /\ (Len(stack'[t]) = Len(stack[t]) /\ stack'[t] # stack[t])
            => /\ Top(stack[t]).phase = "registering"
               /\ Top(stack'[t]).phase = "body"
               /\ task'[t] = Top(stack[t]).val
               /\ hooks' = << >>]_vars

\* The body of with_default(E, ..) runs with E as the override, which it was
\* not before the call, and the call has invoked on_registration once.
C10_Witness ==
    \E t \in Threads :
        /\ stack[t] # << >>
        /\ Top(stack[t]).kind = "with_default"
        /\ Top(stack[t]).phase = "body"
        /\ Top(stack[t]).regs = 1
        /\ task[t] = Top(stack[t]).val
        /\ Top(stack[t]).entry # task[t]

\* The live non-root contexts.
Live == {c \in CtxIds : ctx[c].state = "live"}

\* What get_default is to give on thread t, from the calls made: the evaluator
\* of the innermost running with_default body, else the thread's slot, else the
\* evaluator try_set_global_default installed.
Ambient(t) ==
    IF InnermostOverride(stack[t]) # None THEN InnermostOverride(stack[t])
    ELSE IF threadSlot[t] # None THEN threadSlot[t]
    ELSE GlobalWinner

\* No strong handle to evaluator e is left: user code holds none, no registry
\* slot holds it, no active with_default owns it and no running
\* new_with_parent has it from get_default.
NoHandle(e) ==
    /\ e \notin evHeld
    /\ global # e
    /\ \A t \in Threads : threadSlot[t] # e /\ task[t] # e
    /\ \A fr \in Frames :
        /\ fr.kind = "with_default" => (fr.val # e /\ fr.saved # e)
        /\ fr.kind = "new_context" => ctx[fr.val].born # e

\* C11: a live non-root context whose evaluator at construction is still
\* alive answers Feature::get_state_in with that evaluator's answer, on every
\* thread and whatever get_default gives there now.
C11_Pinned ==
    \A c \in Live : \A t \in Threads : \A f \in Features :
        (ctx[c].born # None /\ ~NoHandle(ctx[c].born))
            => get_state_in(t, c, f) = Answer(ctx[c].born, f)

\* A context constructed under one evaluator is queried inside a with_default
\* of another one, which answers differently.
C11_Witness ==
    \E c \in Live : \E t \in Threads :
        /\ ctx[c].born # None
        /\ ~NoHandle(ctx[c].born)
        /\ InnermostOverride(stack[t]) # None
        /\ InnermostOverride(stack[t]) # ctx[c].born
        /\ get_state_in(t, c, "f") # Answer(get_default(t), "f")

\* C12: a query against the root, given as no context or as the root context,
\* is answered by the evaluator that is ambient on the thread at that moment,
\* and by none when none is ambient.
C12_RootLive ==
    \A t \in Threads : \A f \in Features : \A c \in {None, "Root"} :
        get_state_in(t, c, f) = IF Ambient(t) = None THEN {} ELSE Answer(Ambient(t), f)

\* A with_default has returned into the body of a with_default of another
\* evaluator, and the root answers as that one does.
C12_Witness ==
    /\ ret.op = "with_default"
    /\ ret.res = "Ok"
    /\ Ambient(ret.thread) # None
    /\ Ambient(ret.thread) # ret.arg
    /\ get_state_in(ret.thread, None, "f") = Answer(Ambient(ret.thread), "f")
    /\ get_state_in(ret.thread, None, "f") # Answer(ret.arg, "f")

\* C13: when no strong handle to an evaluator is left, every live context
\* constructed under it has no evaluator: get_state_in gives None and
\* is_enabled_in gives the default.
C13_WeakSnapshot ==
    \A c \in Live : \A t \in Threads :
        (ctx[c].born # None /\ NoHandle(ctx[c].born)) =>
            /\ evaluator(t, c) = None
            /\ \A f \in Features :
                /\ get_state_in(t, c, f) = {}
                /\ \A d \in BOOLEAN : is_enabled_in(t, c, f, d) = d

\* with_default(E, ..) has returned, nothing holds E any more, and a context
\* constructed under E is still live.
C13_Witness ==
    /\ ret.op = "with_default"
    /\ ret.res = "Ok"
    /\ NoHandle(ret.arg)
    /\ \E c \in Live : ctx[c].born = ret.arg /\ evaluator(ret.thread, c) = None

\* The number of on_close_context invocations for context c among the hook
\* invocations h.
CloseCount(h, c) ==
    Cardinality({i \in 1..Len(h) : h[i].hook = "on_close_context" /\ h[i].ctx = c})

\* No clone of context c exists: user code holds none, no live context has it
\* as parent, and no thread's context stack or in_scope call holds it.
NoClone(c) ==
    /\ ~ctx[c].held
    /\ \A d \in CtxIds : ctx[d].state \in {"constructing", "live"} => ctx[d].parent # c
    /\ \A t \in Threads : thread_state[t] # c
    /\ \A fr \in Frames : fr.kind = "in_scope" => (fr.saved # c /\ fr.val # c)

\* C14: the step that destroys a live context invokes on_close_context for it
\* once, on the evaluator of its construction, when that evaluator is still
\* alive, and not at all when it is not; on_close_context for a context is
\* invoked only by the step that destroys it, which leaves no clone of it (the
\* one clone user code held is the one it has just dropped); and it is never
\* invoked twice for a context.
C14_CloseOnce ==
    [][\A c \in CtxIds :
        /\ (ctx[c].state = "live" /\ ctx'[c].state = "destroyed") =>
            /\ CloseCount(hooks', c) =
                    IF ctx[c].born # None /\ ~NoHandle(ctx[c].born) THEN 1 ELSE 0
            /\ \A i \in 1..Len(hooks') :
                    (hooks'[i].hook = "on_close_context" /\ hooks'[i].ctx = c)
                        => hooks'[i].ev = ctx[c].born
            /\ ctx[c].held => (ret'.op = "drop" /\ ret'.arg = c)
        /\ CloseCount(hooks', c) > 0 =>
            /\ ctx[c].state # "destroyed"
            /\ ctx'[c].state = "destroyed"
            /\ NoClone(c)'
        /\ ctx'[c].closed <= 1
        /\ ctx[c].state = "destroyed" => ctx'[c] = ctx[c]]_vars

\* User code has dropped its clone of a child whose parent link was the last
\* clone of the parent: both were destroyed by the step, each with one
\* on_close_context, the child's first.
C14_Witness ==
    /\ ret.op = "drop"
    /\ Len(hooks) = 2
    /\ hooks[1].hook = "on_close_context"
    /\ hooks[2].hook = "on_close_context"
    /\ hooks[1].ctx = ret.arg
    /\ hooks[2].ctx # ret.arg
    /\ ctx[hooks[1].ctx].state = "destroyed"
    /\ ctx[hooks[2].ctx].state = "destroyed"

\* C15: on_close_context is invoked for a context at most once, and only for a
\* context whose construction completed: its on_new_context returned and the
\* context was handed to the caller of new_with_parent.
C15_Lifecycle ==
    \A c \in CtxIds :
        /\ ctx[c].closed <= 1
        /\ ctx[c].closed >= 1 => ctx[c].completed

\* The number of on_new_context invocations for context c among the hook
\* invocations h.
OpenCount(h, c) ==
    Cardinality({i \in 1..Len(h) : h[i].hook = "on_new_context" /\ h[i].ctx = c})

\* C16: the step of new_with_parent on a thread that brings a context into
\* being invokes on_new_context once, on the evaluator get_default gives on
\* that thread at that step, which is the snapshot of the context, and invokes
\* nothing else; no clone of the context exists while the hook runs; when
\* get_default gives none, nothing is invoked and the context is live with no
\* extensions.  No later step invokes on_new_context for the context.
C16_NewContextHook ==
    [][\A c \in CtxIds :
        /\ (ctx[c].state = "unborn" /\ ctx'[c].state # "unborn") =>
            \E t \in Threads :
                LET e == get_default(t) IN
                /\ stack'[t] # stack[t] \/ ret'.thread = t
                /\ ctx'[c].ev = e
                /\ ctx'[c].born = e
                /\ e # None =>
                    /\ hooks' = << CtxHook(t, "on_new_context", e, c) >>
                    /\ ctx'[c].state = "constructing"
                    /\ ret' = NoRet
                /\ e = None =>
                    /\ hooks' = << >>
                    /\ ctx'[c].state = "live"
                    /\ ctx'[c].ext = {}
        /\ ctx[c].state # "unborn" =>
            /\ OpenCount(hooks', c) = 0
            /\ ctx'[c].opened = ctx[c].opened
        /\ ctx'[c].state = "constructing" => NoClone(c)'
        /\ ctx'[c].state = "live" =>
            ctx'[c].opened = IF ctx'[c].born # None THEN 1 ELSE 0]_vars

\* Two contexts are live, one constructed under an evaluator, whose hook ran
\* once and left an extension, and one constructed with none.
C16_Witness ==
    \E c, d \in Live :
        /\ ctx[c].born # None
        /\ ctx[c].opened = 1
        /\ ctx[c].ext # {}
        /\ ctx[d].born = None
        /\ ctx[d].opened = 0
        /\ ctx[d].ext = {}

\* The contexts that exist: under construction or live.
Existing == {c \in CtxIds : ctx[c].state \in {"constructing", "live"}}

\* C17: the stored parent of a context is never the root context, and a
\* context constructed with the root as parent, given explicitly or taken as
\* the thread's current context, stores no parent.
C17_NoRootParent ==
    \A c \in CtxIds :
        /\ ctx[c].parent # "Root"
        /\ (c \in Existing /\ ctx[c].arg = "Root") => ctx[c].parent = None

\* new_with_parent has returned a context constructed with the root as parent
\* while the root is the thread's current context; it stores no parent.
C17_Witness ==
    /\ ret.op = "new_with_parent"
    /\ ret.res = "Ok"
    /\ ctx[ret.arg].arg = "Root"
    /\ ctx[ret.arg].parent = None
    /\ current(ret.thread) = "Root"

\* C18: for every context C, the root included, C.iter() is a finite sequence
\* without repetition that starts with C, in which every element is followed
\* by its parent, the context given as parent at construction when one other
\* than the root was given, and that ends at the first context that has no
\* parent.
C18_Iter ==
    \A c \in Live \cup {"Root"} :
        LET q == iter(c) IN
        /\ Len(q) >= 1
        /\ Len(q) <= Cardinality(Contexts)
        /\ q[1] = c
        /\ \A i, j \in 1..Len(q) : q[i] = q[j] => i = j
        /\ \A i \in 1..(Len(q) - 1) :
            /\ parent(q[i]) # None
            /\ q[i + 1] = parent(q[i])
            /\ ctx[q[i]].arg \in CtxIds => q[i + 1] = ctx[q[i]].arg
        /\ parent(q[Len(q)]) = None

\* A live context was constructed with a live non-root context as parent: its
\* sequence has three elements.
C18_Witness ==
    \E c \in Live :
        /\ ctx[c].arg \in Live
        /\ Len(iter(c)) = 3
        /\ iter(c)[2] = ctx[c].arg

\* C19, as stated: for every non-root context C no element of C.iter() is the
\* root context.
C19_NoRootInChain ==
    \A c \in Live : \A i \in 1..Len(iter(c)) : ~is_root(iter(c)[i])

\* C19, amended: for every non-root context C the root context is the last
\* element of C.iter() and no other element of it; the elements before it are
\* non-root contexts whose stored parent is not the root.
C19_RootLast ==
    \A c \in Live :
        LET q == iter(c) IN
        /\ Len(q) >= 2
        /\ is_root(q[Len(q)])
        /\ \A i \in 1..(Len(q) - 1) :
            /\ ~is_root(q[i])
            /\ ctx[q[i]].parent # "Root"

\* A live context stores no parent and its sequence is itself and the root.
C19_Witness ==
    \E c \in Live :
        /\ ctx[c].parent = None
        /\ iter(c) = <<c, "Root">>

\* C20: Context::parent gives None for the root and for no other context; for
\* a context constructed with no parent or with the root as parent it gives
\* the root, and otherwise the parent given at construction.
C20_Parent ==
    /\ parent("Root") = None
    /\ \A c \in Existing :
        /\ parent(c) # None
        /\ ctx[c].arg \in {None, "Root"} => parent(c) = "Root"
        /\ ctx[c].arg \in CtxIds => parent(c) = ctx[c].arg

\* A context constructed with the root as parent and a context constructed
\* with that one as parent are live.
C20_Witness ==
    \E c, d \in Live :
        /\ ctx[c].arg = "Root"
        /\ parent(c) = "Root"
        /\ ctx[d].arg = c
        /\ parent(d) = c

\* C28: a step in which a thread enters or leaves a scope changes neither the
\* context stack of another thread nor what Context::current() returns on it.
C28_ScopeConfined ==
    [][\A t \in Threads : \A u \in Threads \ {t} :
        stack'[t] # stack[t] =>
            /\ thread_state'[u] = thread_state[u]
            /\ current(u)' = current(u)]_vars

\* A thread has just left the scope of one context while another thread is
\* inside the scope of a different context, which is still current there.
C28_Witness ==
    \E t \in Threads : \E u \in Threads \ {t} :
        /\ ret.op = "in_scope"
        /\ ret.thread = t
        /\ InScopeFrames(stack[u]) # {}
        /\ current(u) = stack[u][Max(InScopeFrames(stack[u]))].val
        /\ current(t) # current(u)
        /\ current(u) # ret.arg

\* C29: what get_default yields on a thread changes only in a step of that
\* thread, or in the step in which try_set_global_default fills the global
\* slot while the thread has neither an override nor a filled thread slot; a
\* with_default or try_set_thread_default step on another thread changes
\* neither the thread's override nor its slot.
C29_TiersConfined ==
    [][\A u \in Threads :
        /\ get_default(u)' # get_default(u) =>
            \/ stack'[u] # stack[u]
            \/ ret'.thread = u
            \/ /\ ret'.op = "try_set_global_default"
               /\ ret'.res = "Ok"
               /\ task[u] = None
               /\ threadSlot[u] = None
        /\ (ret'.thread # u /\ stack'[u] = stack[u]) =>
            /\ task'[u] = task[u]
            /\ threadSlot'[u] = threadSlot[u]]_vars

\* try_set_thread_default has just filled the slot of one thread while the
\* other thread is in a with_default body of another evaluator, and the global
\* slot holds a value: each thread resolves to its own tier.
C29_Witness ==
    \E u \in Threads \ {ret.thread} :
        /\ ret.op = "try_set_thread_default"
        /\ ret.res = "Ok"
        /\ global # None
        /\ InnermostOverride(stack[u]) # None
        /\ get_default(u) = InnermostOverride(stack[u])
        /\ get_default(ret.thread) = ret.arg
        /\ get_default(u) # ret.arg
        /\ threadSlot[u] = None

\* C21: the step of Context::new on a thread makes the thread's current
\* context at that step the parent of the new context: the context stores no
\* parent when the thread has no current context or the root is current, and
\* the current context otherwise.  With new_with_parent the parent is the one
\* given, whatever the thread's current context is.
C21_ParentFromCurrent ==
    [][\A c \in CtxIds : \A t \in Threads :
        (ctx[c].state = "unborn" /\ ctx'[c].state # "unborn"
            /\ (stack'[t] # stack[t] \/ ret'.thread = t)) =>
            LET viaNew == IF ctx'[c].state = "constructing"
                             THEN CalledAs(Top(stack'[t])) = "new"
                             ELSE ret'.op = "new"
            IN
            /\ viaNew =>
                /\ ctx'[c].arg = current(t)
                /\ current(t) \in {None, "Root"} =>
                        (ctx'[c].parent = None /\ parent(c)' = "Root")
                /\ current(t) \in CtxIds =>
                        (ctx'[c].parent = current(t) /\ parent(c)' = current(t))
            /\ ~viaNew =>
                /\ ctx'[c].state = "constructing" => ctx'[c].arg = Top(stack'[t]).saved
                /\ ctx'[c].arg \in CtxIds =>
                        (ctx'[c].parent = ctx'[c].arg /\ parent(c)' = ctx'[c].arg)]_vars

\* Context::new has returned a context inside the scope of a live context,
\* which is its parent.
C21_Witness ==
    /\ ret.op = "new"
    /\ ret.res = "Ok"
    /\ current(ret.thread) \in Live
    /\ ctx[ret.arg].parent = current(ret.thread)
    /\ parent(ret.arg) = current(ret.thread)

\* C22: as long as a context is live, the value the on_new_context of its
\* evaluator inserted for it is in its extensions(); it is in the extensions()
\* of no other context, and a descendant finds it in the extensions() of an
\* element of its iter().
C22_ExtensionsOwn ==
    \A c \in Live :
        LET v == Inserted(ctx[c].born, c) IN
        /\ Inserts(ctx[c].born) => v \in extensions(c)
        /\ \A d \in Contexts \ {c} : d \in Live \cup {"Root"} => v \notin extensions(d)
        /\ \A d \in Live :
            (Inserts(ctx[c].born) /\ c \in Range(iter(d)))
                => \E i \in 1..Len(iter(d)) : v \in extensions(iter(d)[i])

\* A live context has the value its evaluator inserted; a live child of it,
\* constructed under an evaluator that inserts nothing, has empty extensions
\* and reaches the value at the second element of its iter().
C22_Witness ==
    \E c, d \in Live :
        /\ ctx[d].parent = c
        /\ Inserts(ctx[c].born)
        /\ ctx[d].born # None
        /\ Inserted(ctx[c].born, c) \in extensions(iter(d)[2])
        /\ extensions(d) = {}

\* The evaluator a query against context c on thread t is to reach: for a live
\* context the evaluator of its construction while a strong handle is left, for
\* the root (or no context) the ambient one.
Consulted(t, c) ==
    IF c \in CtxIds
        THEN IF ctx[c].born # None /\ ~NoHandle(ctx[c].born) THEN ctx[c].born ELSE None
        ELSE Ambient(t)

\* C23: Feature::is_enabled_in returns b and does not invoke default_fn when
\* the evaluator of the context answers Some(b); it invokes default_fn and
\* returns its value when the evaluator abstains and when the context has no
\* evaluator.
C23_DefaultOnAbstain ==
    \A t \in Threads : \A c \in Live \cup {None, "Root"} :
    \A f \in Features : \A d \in BOOLEAN :
        LET e == Consulted(t, c)
            a == IF e = None THEN {} ELSE Answer(e, f)
        IN /\ a # {} =>
                /\ is_enabled_in(t, c, f, d) \in a
                /\ ~default_fn_called(t, c, f, d)
           /\ a = {} =>
                /\ is_enabled_in(t, c, f, d) = d
                /\ default_fn_called(t, c, f, d)

\* One state in which a query is answered Some(true) by one context, Some(false)
\* by the root, and falls to the default in a context without evaluator.
C23_Witness ==
    \E t \in Threads : \E c, d \in Live :
        /\ Consulted(t, c) # None
        /\ is_enabled_in(t, c, "f", FALSE) = TRUE
        /\ Consulted(t, None) # None
        /\ is_enabled_in(t, None, "f", TRUE) = FALSE
        /\ Consulted(t, d) = None
        /\ is_enabled_in(t, d, "f", TRUE) = TRUE
        /\ default_fn_called(t, d, "f", TRUE)
        /\ default_fn_called(t, c, "g", TRUE)

\* The context a thread has entered innermost with in_scope, the root when it
\* is in no scope.
InnermostScope(t) ==
    LET I == InScopeFrames(stack[t]) IN
    IF I = {} THEN "Root" ELSE stack[t][Max(I)].val

\* C24: Feature::get_state and Feature::is_enabled on a thread give what the
\* evaluator of the innermost context entered with in_scope on that thread
\* answers, and what the ambient evaluator answers when the thread is in no
\* scope.
C24_CurrentContext ==
    \A t \in Threads : \A f \in Features : \A d \in BOOLEAN :
        LET e == Consulted(t, InnermostScope(t))
            a == IF e = None THEN {} ELSE Answer(e, f)
        IN /\ get_state(t, f) = a
           /\ a # {} => is_enabled(t, f, d) \in a
           /\ a = {} => is_enabled(t, f, d) = d

\* A thread is in the scope of a context whose evaluator enables the feature,
\* inside a with_default of an evaluator that disables it.
C24_Witness ==
    \E t \in Threads :
        /\ InnermostScope(t) \in Live
        /\ Ambient(t) # None
        /\ Answer(Ambient(t), "f") = {FALSE}
        /\ get_state(t, "f") = {TRUE}
        /\ is_enabled(t, "f", FALSE)

\* The answer and the invocations a part of a combined evaluator is to give
\* when asked for feature f on thread t: those of the plain evaluator when the
\* part is one, and what Evaluator::is_enabled computes for it otherwise.
Asked(t, ev, f) ==
    IF ev.op = "Leaf"
        THEN [res |-> LeafAnswer(ev.name, f), calls |-> << AskCall(t, ev.name, f) >>]
        ELSE Evaluator_is_enabled(t, ev, f)

\* C25: Chain(first, second).is_enabled gives first's answer when it is Some
\* and then asks nothing of second; it gives second's answer when first
\* abstains, having asked first and then second; it is None exactly when both
\* abstain.
C25_ChainIsEnabled ==
    (ret.op = "is_enabled" /\ ret.arg.ev.op = "Chain") =>
        LET a == Asked(ret.thread, ret.arg.ev.first, ret.arg.feature)
            b == Asked(ret.thread, ret.arg.ev.second, ret.arg.feature)
        IN /\ a.res # {} => (ret.res = a.res /\ hooks = a.calls)
           /\ a.res = {} => (ret.res = b.res /\ hooks = a.calls \o b.calls)
           /\ ret.res = {} <=> (a.res = {} /\ b.res = {})

\* A chain of two plain evaluators was asked: the first abstained, the second
\* answered, and both were asked, in that order.
C25_Witness ==
    /\ ret.op = "is_enabled"
    /\ ret.arg.ev.op = "Chain"
    /\ ret.arg.ev.first.op = "Leaf"
    /\ ret.arg.ev.second.op = "Leaf"
    /\ LeafAnswer(ret.arg.ev.first.name, ret.arg.feature) = {}
    /\ ret.res = {FALSE}
    /\ Len(hooks) = 2
    /\ hooks[1].ev = ret.arg.ev.first.name
    /\ hooks[2].ev = ret.arg.ev.second.name

\* The invocations and the extensions a part of a combined evaluator is to
\* give for a lifecycle hook on context c with extensions data.
Delivered(t, ev, name, c, data) ==
    IF ev.op = "Leaf"
        THEN [calls |-> << HookCall(t, name, ev.name, data) >>,
              data |-> LeafHook(name, ev.name, c, data)]
        ELSE Deliver(t, ev, name, c, data)

C27_Filter ==
    /\ (ret.op = "is_enabled" /\ ret.arg.ev.op = "Filter") =>
        LET r == Asked(ret.thread, ret.arg.ev.inner, ret.arg.feature) IN
        /\ ret.arg.feature \in ret.arg.ev.pred => (ret.res = r.res /\ hooks = r.calls)
        /\ ret.arg.feature \notin ret.arg.ev.pred => (ret.res = {} /\ hooks = << >>)
    /\ (ret.op \in LifecycleHooks /\ ret.arg.ev.op = "Filter") =>
        LET r == Delivered(ret.thread, ret.arg.ev.inner, ret.op, ret.arg.ctx, ret.arg.data) IN
        /\ r.calls # << >>
        /\ hooks = r.calls
        /\ ret.res = r.data

\* A filter that rejects the name was asked about a feature its inner plain
\* evaluator enables: the answer is None and nothing was asked.
C27_Witness ==
    /\ ret.op = "is_enabled"
    /\ ret.arg.ev.op = "Filter"
    /\ ret.arg.ev.inner.op = "Leaf"
    /\ ret.arg.feature \notin ret.arg.ev.pred
    /\ LeafAnswer(ret.arg.ev.inner.name, ret.arg.feature) = {TRUE}
    /\ ret.res = {}
    /\ hooks = << >>

\* The positions of the frames of a stack that replaced the current context:
\* in_scope calls and polls of wrapped futures.
ScopeFrames(s) == {i \in 1..Len(s) : s[i].kind \in {"in_scope", "poll"}}

\* C30: while the poll of a future or stream wrapped with context C is the
\* innermost scope of a thread, Context::current() on that thread is C; when
\* the poll returns Pending, an item or Ready, or a panic leaves it, the
\* thread's current context is what it was when the poll was called, and the
\* payload that leaves is the one that reached it; a thread that is in no
\* scope and no poll has no current context.
C30_PollScoped ==
    [][\A t \in Threads :
        /\ LET s == stack'[t]
               I == ScopeFrames(s)
           IN (I # {} /\ s[Max(I)].kind = "poll")
                => current(t)' = futs'[s[Max(I)].val].context
        /\ (ret'.op = "poll" /\ ret'.thread = t) =>
            /\ current(t)' = Top(stack[t]).entry
            /\ futs'[ret'.arg].context = futs[ret'.arg].context
            /\ ret'.res = "Panic" => (panic[t] # None /\ panic'[t] = panic[t])
        /\ ScopeFrames(stack'[t]) = {} => current(t)' = None]_vars

\* A poll made inside the scope of another context has returned Pending: the
\* future is suspended and the other context is current again.
C30_Witness ==
    /\ ret.op = "poll"
    /\ ret.res = "Pending"
    /\ futs[ret.arg].state = "pending"
    /\ stack[ret.thread] # << >>
    /\ Top(stack[ret.thread]).kind = "in_scope"
    /\ current(ret.thread) = Top(stack[ret.thread]).val
    /\ current(ret.thread) # futs[ret.arg].context

\* C35: on a thread on which no in_scope call is active, Context::current()
\* returns None, whether the thread has never entered a scope or has left all
\* the scopes it entered.
C35_NoScopeNoCurrent ==
    \A t \in Threads : InScopeFrames(stack[t]) = {} => current(t) = None

\* One thread has left its last scope, so that its state exists, and another
\* has never entered one: neither has a current context.
C35_Witness ==
    \E t \in Threads : \E u \in Threads \ {t} :
        /\ ret.op = "in_scope"
        /\ ret.thread = t
        /\ stack[t] = << >>
        /\ thread_state[t] # Absent
        /\ current(t) = None
        /\ thread_state[u] = Absent
        /\ current(u) = None

\* C32: an Extensions value never holds two values of one type; insert::<T>(v)
\* returns the value of T stored before (None when there was none), leaves v
\* as the value of T and does not touch the other types; remove::<T>() returns
\* the stored value of T, leaves none and does not touch the other types; and
\* has::<T>() is true exactly when get::<T>() is Some.
C32_OnePerType ==
    [][/\ \A T \in Types :
            /\ Cardinality(ext_get(store', T)) <= 1
            /\ ext_has(store', T) <=> ext_get(store', T) # {}
       /\ ret'.op = "insert" =>
            /\ ret'.res = ext_get(store, ret'.arg.type)
            /\ ext_get(store', ret'.arg.type) = {ret'.arg.value}
            /\ \A T \in Types \ {ret'.arg.type} : ext_get(store', T) = ext_get(store, T)
       /\ ret'.op = "remove" =>
            /\ ret'.res = ext_get(store, ret'.arg.type)
            /\ ~ext_has(store', ret'.arg.type)
            /\ \A T \in Types \ {ret'.arg.type} : ext_get(store', T) = ext_get(store, T)
       /\ ret'.op = "get" => ret'.res = ext_get(store', ret'.arg.type)
       /\ ret'.op = "has" => ret'.res = (ext_get(store', ret'.arg.type) # {})]_vars

\* An insert has replaced a different value of its type and returned it, while
\* a value of the other type is stored.
C32_Witness ==
    /\ ret.op = "insert"
    /\ ret.res # {}
    /\ ret.res # {ret.arg.value}
    /\ ext_get(store, ret.arg.type) = {ret.arg.value}
    /\ \E T \in Types \ {ret.arg.type} : ext_has(store, T)

\* C33: Fields::get(key) returns the value of the first pair, in construction
\* order, whose name is key, also when later pairs have that name, and None
\* when no pair has that name.
C33_FirstMatch ==
    ret.op = "Fields::get" =>
        LET fields == ret.arg.fields
            key == ret.arg.key
        IN  /\ \A i \in 1..Len(fields) :
                    (fields[i][1] = key /\ \A j \in 1..(i - 1) : fields[j][1] # key)
                        => ret.res = {fields[i][2]}
            /\ (\A i \in 1..Len(fields) : fields[i][1] # key) => ret.res = {}

\* A lookup of a name that two pairs carry with different values returned the
\* value of the earlier pair.
C33_Witness ==
    /\ ret.op = "Fields::get"
    /\ \E i \in 1..Len(ret.arg.fields) : \E j \in (i + 1)..Len(ret.arg.fields) :
            /\ ret.arg.fields[i][1] = ret.arg.key
            /\ ret.arg.fields[j][1] = ret.arg.key
            /\ ret.arg.fields[i][2] # ret.arg.fields[j][2]
            /\ \A k \in 1..(i - 1) : ret.arg.fields[k][1] # ret.arg.key
            /\ ret.res = {ret.arg.fields[i][2]}

\* C34: for every Value v, v.to_static().to_static() equals v.to_static(), and
\* to_static and into_static keep the variant and the payload of v.
C34_ToStaticIdempotent ==
    /\ ret.op = "to_static" =>
            /\ to_static(ret.res) = ret.res
            /\ ret.res.variant = ret.arg.value.variant
            /\ ret.res.payload = ret.arg.value.payload
    /\ ret.op = "into_static" =>
            /\ ret.res.variant = ret.arg.value.variant
            /\ ret.res.payload = ret.arg.value.payload

\* to_static has turned a borrowed string into an owned one with the same text.
C34_Witness ==
    /\ ret.op = "to_static"
    /\ ret.arg.value = Value("Str", "ab", "Borrowed")
    /\ ret.res = Value("Str", "ab", "Owned")

\* Sequence seq is the chain of the ancestors of context c when the contexts
\* are as in cx: empty without a stored parent, else the stored parent, each
\* next element the parent of the one before, the root last; c is not in it.
AncestorsOnly(seq, cx, c) ==
    /\ c \notin Range(seq)
    /\ IF cx[c].parent = None
          THEN seq = << >>
          ELSE /\ seq # << >>
               /\ seq[1] = cx[c].parent
               /\ seq[Len(seq)] = "Root"
               /\ \A k \in 1..(Len(seq) - 1) :
                    /\ seq[k] # "Root"
                    /\ seq[k + 1] = IF cx[seq[k]].parent # None THEN cx[seq[k]].parent
                                    ELSE "Root"

RECURSIVE Descends(_, _, _)
Descends(cx, d, c) ==
    /\ cx[d].parent # None
    /\ cx[d].parent = c \/ Descends(cx, cx[d].parent, c)

\* C37: when on_close_context is invoked for a context, none of its descendants
\* is still live or under construction, and in one chain of drops the close
\* hook of a child comes before that of its parent.
C37_ChildClosesFirst ==
    [][\A i \in 1..Len(hooks') :
            hooks'[i].hook = "on_close_context" =>
                /\ \A d \in CtxIds :
                        Descends(ctx, d, hooks'[i].ctx) =>
                            ctx'[d].state \notin {"constructing", "live"}
                /\ \A j \in 1..Len(hooks') :
                        (/\ hooks'[j].hook = "on_close_context"
                         /\ Descends(ctx, hooks'[j].ctx, hooks'[i].ctx)) => j < i]_vars

\* The drop of the last clone of a child has closed the child and then its
\* parent, which only the child's link had kept alive.
C37_Witness ==
    /\ Len(hooks) = 2
    /\ hooks[1].hook = "on_close_context"
    /\ hooks[2].hook = "on_close_context"
    /\ hooks[1].ctx # hooks[2].ctx
    /\ ret.op = "drop"
    /\ ret.arg = hooks[1].ctx
    /\ \A c \in {hooks[1].ctx, hooks[2].ctx} : ctx[c].state = "destroyed"

\* C38: a context created while get_default yields no evaluator has none for
\* its whole life: Context::evaluator is None, get_state_in returns None and
\* is_enabled_in the default on every thread, whatever is installed later, and
\* neither on_new_context nor on_close_context is ever invoked for it.
C38_NeverAcquires ==
    /\ \A c \in CtxIds :
            /\ (ctx[c].state = "live" /\ ctx[c].born = None) =>
                    \A t \in Threads : \A f \in Features : \A d \in BOOLEAN :
                        /\ evaluator(t, c) = None
                        /\ get_state_in(t, c, f) = {}
                        /\ is_enabled_in(t, c, f, d) = d
            /\ (ctx[c].state # "unborn" /\ ctx[c].born = None /\ ctx[c].opened = 0) =>
                    ctx[c].closed = 0
    /\ \A i \in 1..Len(hooks) :
            hooks[i].hook \in ContextHooks => ctx[hooks[i].ctx].opened > 0

\* A context created without an evaluator is live while the thread that made
\* it resolves an evaluator, and the global and the thread default are set.
C38_Witness ==
    \E c \in CtxIds :
        /\ ctx[c].state = "live"
        /\ ctx[c].born = None
        /\ get_default(Builder) # None
        /\ global # None
        /\ threadSlot[Builder] # None
        /\ task[Builder] # None

\* Thread t is running the inner poll of future f of a WrapEvaluator made by
\* function by, with no other scoped call begun inside it.
InInnerPoll(t, f, by) ==
    /\ stack[t] # << >>
    /\ Top(stack[t]).kind = "poll_evaluator"
    /\ Top(stack[t]).phase = "body"
    /\ Top(stack[t]).val = f
    /\ futs[f].by = by

\* C31: while the inner poll of a future wrapped by wrap_evaluator(E) runs on a
\* thread, get_default on that thread yields E, and when the poll leaves, the
\* task override of the thread is what it was when the poll was called.
C31_PollSeesEvaluator ==
    [][\A t \in Threads : \A f \in Futures :
            /\ InInnerPoll(t, f, "wrap_evaluator")' => get_default(t)' = futs'[f].evaluator
            /\ (/\ ret'.op = "poll" /\ ret'.thread = t /\ ret'.arg = f
                /\ futs[f].by = "wrap_evaluator"
                /\ stack[t] # << >>) =>
                    /\ Top(stack[t]).val = f
                    /\ task'[t] = Top(stack[t]).entry]_vars

\* A future wrapped with E2 that was last polled on one thread is polled on
\* the other, which resolves E2, while the first thread has no override left.
C31_Witness ==
    \E t \in Threads : \E f \in Futures :
        /\ InInnerPoll(t, f, "wrap_evaluator")
        /\ futs[f].last \in Threads \ {t}
        /\ get_default(t) = "E2"
        /\ task[futs[f].last] = None
        /\ get_default(futs[f].last) # "E2"

\* Future f has been polled: a poll of it is running or has ended.
Polled(f) == futs[f].state \in {"polling", "ready", "failed"} \/ futs[f].last # None

\* C39 as stated: a future made by wrap_evaluator has invoked on_registration
\* once when it has been polled and never when it has not, and one made by
\* inherit_evaluator has never invoked it.
C39_RegisteredOnce ==
    \A f \in Futures :
        /\ futs[f].by = "wrap_evaluator" => futs[f].regs = IF Polled(f) THEN 1 ELSE 0
        /\ futs[f].by = "inherit_evaluator" => futs[f].regs = 0

\* C39: a future made by wrap_evaluator(E) invokes E.on_registration at the
\* start of each poll until one invocation has returned, before E is installed
\* for that poll, and at no poll after that; it invokes it at its first poll
\* and never when it is not polled.  One made by inherit_evaluator never
\* invokes it.
C39_RegisteredUntilReturned ==
    [][\A f \in Futures :
            LET begins == futs[f].state = "pending" /\ futs'[f].state = "polling"
                invoked == \E t \in Threads :
                                /\ hooks' = << Hook(t, "on_registration", futs[f].evaluator) >>
                                /\ stack'[t] # << >>
                                /\ Top(stack'[t]).kind = "poll_evaluator"
                                /\ Top(stack'[t]).val = f
                                /\ Top(stack'[t]).phase = "registering"
            IN  /\ futs'[f].by = "inherit_evaluator" => futs'[f].regs = 0
                /\ (futs'[f].by = "wrap_evaluator" /\ ~Polled(f)') => futs'[f].regs = 0
                /\ (futs'[f].by = "wrap_evaluator" /\ Polled(f)') => futs'[f].regs >= 1
                /\ futs'[f].regs # futs[f].regs => (begins /\ invoked)
                /\ (begins /\ futs[f].by = "wrap_evaluator" /\ ~futs[f].registered) =>
                        (invoked /\ task' = task)
                /\ futs[f].registered =>
                        /\ futs'[f].registered
                        /\ futs'[f].regs = futs[f].regs
                        /\ begins => hooks' = << >>]_vars

\* A future made by wrap_evaluator is in its second poll at least, registered
\* by the one invocation of on_registration it has made.
C39_Witness ==
    \E t \in Threads : \E f \in Futures :
        /\ InInnerPoll(t, f, "wrap_evaluator")
        /\ futs[f].last # None
        /\ futs[f].registered
        /\ futs[f].regs = 1
        /\ hooks = << >>

\* C40: while the inner poll of a future wrapped by inherit_evaluator runs on a
\* thread, get_default on that thread yields the evaluator get_default yielded
\* when inherit_evaluator was called; when it yielded none, get_default yields
\* NoEvaluator, whatever the thread and global slots hold, and every feature
\* asked on the root context is undecided.
C40_InheritedEvaluator ==
    \A t \in Threads : \A f \in Futures :
        InInnerPoll(t, f, "inherit_evaluator") =>
            IF futs[f].captured # None
                THEN get_default(t) = futs[f].captured
                ELSE /\ get_default(t) = NoEv
                     /\ \A feature \in Features : get_state_in(t, None, feature) = {}

\* A future that inherited no evaluator is polled on a thread whose thread
\* slot and the global slot have been set since.
C40_Witness ==
    \E t \in Threads : \E f \in Futures :
        /\ InInnerPoll(t, f, "inherit_evaluator")
        /\ futs[f].captured = None
        /\ global # None
        /\ threadSlot[t] # None
        /\ get_default(t) = NoEv

====
